---- MODULE Spec2Model ----
(***************************************************************************)
(* School administration backend: the student, classroom and school        *)
(* managers running against the document store.  Every request is an       *)
(* independent asynchronous task; each `await` on the store is one atomic  *)
(* step, and tasks interleave freely between their steps.                  *)
(*                                                                         *)
(* Identifiers are kept with their storage representation: a value is a    *)
(* pair <<rep, n>> with rep "oid" (ObjectId), "str" (24-hex string) or     *)
(* "null".  The store compares values by type and content, so a string     *)
(* never equals an ObjectId.                                                *)
(***************************************************************************)
EXTENDS Integers, Sequences, FiniteSets, TLC

\* ----- bounds ------------------------------------------------------------
NumProcs == 2
MaxSchools == 2
MaxClassrooms == 2
MaxStudents == 2
MaxEmails == 2
MaxCapacity == 2
MaxTransfers == 1
MaxRequests == 3
MaxHttpRequests == 2

Procs == 1..NumProcs
SchoolIds == 1..MaxSchools
ClassroomIds == 1..MaxClassrooms
StudentIds == 1..MaxStudents
Emails == 1..MaxEmails
Capacities == 1..MaxCapacity
SchoolNames == {"a", "A", "b"}
ClassroomNames == {"r1", "r2", "r3"}
None == 0

\* ----- identifier representations ---------------------------------------
StrId(n) == <<"str", n>>
ObjectId(n) == <<"oid", n>>
NullId == <<"null", None>>

toObjectId(v) == <<"oid", v[2]>>

\* JavaScript truthiness of an id-valued field
Truthy(v) == v[1] # "null"

\* new RegExp(`^${name}$`, 'i').test(other)
ToLower(n) == IF n = "A" THEN "a" ELSE n

NameRegexMatches(name, other) == ToLower(name) = ToLower(other)

\* ----- errors --------------------------------------------------------------
ErrorCodes ==
    {"AUTH_REQUIRED", "INVALID_TOKEN", "ACCESS_DENIED", "RESOURCE_NOT_FOUND",
     "RESOURCE_EXISTS", "INVALID_INPUT", "CLASSROOM_FULL", "INVALID_TRANSFER",
     "SCHOOL_INACTIVE", "INTERNAL_ERROR", "DATABASE_ERROR",
     "EXTERNAL_SERVICE_ERROR"}

DomainKinds ==
    {"RESOURCE_EXISTS", "RESOURCE_NOT_FOUND", "CLASSROOM_FULL", "INVALID_INPUT",
     "INVALID_TRANSFER", "SCHOOL_INACTIVE"}

\* the value thrown by `throw new AppError(code, ...)`: the constructor reads
\* errorCodes[code].message, which is a TypeError for an unknown code
AppError(code) ==
    IF code \in ErrorCodes
    THEN [isAppError |-> TRUE, code |-> code]
    ELSE [isAppError |-> FALSE, code |-> "TypeError"]

\* catch (error) { if (error instanceof AppError) throw error;
\*                 throw new AppError('DATABASE_ERROR', ...) }
CatchPassThrough(err) == IF err.isAppError THEN err.code ELSE "DATABASE_ERROR"

\* catch (error) { throw new AppError('DATABASE_ERROR', ...) }
CatchRewrap(err) == "DATABASE_ERROR"

\* ----- state ---------------------------------------------------------------
VARIABLES schools, classrooms, students, cache, proc, res, requests

vars == <<schools, classrooms, students, cache, proc, res, requests>>

NoSchool == [status |-> "none", name |-> ""]

NoClassroom ==
    [status |-> "none", schoolId |-> NullId, name |-> "", capacity |-> 0,
     currentStudents |-> 0]

NoStudent ==
    [status |-> "none", schoolId |-> NullId, classroomId |-> NullId,
     email |-> None, transferHistory |-> <<>>]

NoSummary == [students |-> [before |-> 0, deleted |-> 0],
              classrooms |-> [before |-> 0, deleted |-> 0]]

\* recoverPartialDelete's states: per collection { deletedCount, totalCount }
NoReport == [c \in {"schools", "students", "classrooms"} |->
                [deletedCount |-> 0, totalCount |-> 0]]

NoPre == [counts |-> [k \in ClassroomIds |-> 0], classroomId |-> NullId,
          students |-> {}, classrooms |-> {}, student |-> NoStudent,
          classroom |-> NoClassroom, school |-> "none", present |-> {}]

IdleProc ==
    [op |-> "idle", pc |-> "idle", sid |-> None, cid |-> None, uid |-> None,
     to |-> None, email |-> None, upd |-> "", name |-> "", capacity |-> 0,
     status |-> "", snap |-> NullId, result |-> NullId, pend |-> {},
     summary |-> NoSummary, pre |-> NoPre, writes |-> <<>>,
     report |-> NoReport]

\* the HTTP request a middleware answered (kept with the answer)
NoRequest == [method |-> "", path |-> "", schoolId |-> None,
              user |-> [role |-> "", schoolId |-> None]]

\* a JWT: the user of its payload, its issue time, and whether it carries
\* the server's signature
Token(user, iat, signed) == [user |-> user, iat |-> iat, signed |-> signed]

NoToken == Token(NoRequest.user, 0, FALSE)

NoResult ==
    [op |-> "none", kind |-> "none", raised |-> "none", published |-> "none",
     sid |-> None, cid |-> None, uid |-> None, to |-> None,
     name |-> "", capacity |-> 0, summary |-> NoSummary, pre |-> NoPre,
     pc |-> "none", writes |-> <<>>, report |-> NoReport,
     req |-> NoRequest, token |-> NoToken]

Init ==
    /\ schools = [s \in SchoolIds |-> NoSchool]
    /\ classrooms = [k \in ClassroomIds |-> NoClassroom]
    /\ students = [u \in StudentIds |-> NoStudent]
    /\ cache = {}
    /\ proc = [p \in Procs |-> IdleProc]
    /\ res = [p \in Procs |-> NoResult]
    /\ requests = 0

\* ----- store helpers -------------------------------------------------------
Present(coll) == {k \in DOMAIN coll : coll[k].status # "none"}

\* insertOne: the store generates the next unused identifier
NextId(coll) == CHOOSE k \in DOMAIN coll :
                    /\ coll[k].status = "none"
                    /\ \A j \in DOMAIN coll : coll[j].status = "none" => k <= j

HasRoom(coll) == \E k \in DOMAIN coll : coll[k].status = "none"

\* documents of a collection whose _id equals the filter value
ById(coll, idFilter) == {k \in Present(coll) : ObjectId(k) = idFilter}

Counts == [k \in ClassroomIds |-> classrooms[k].currentStudents]

\* $inc on the classroom documents matching an _id filter
IncClassrooms(cls, idFilter, delta) ==
    [k \in ClassroomIds |->
        IF cls[k].status # "none" /\ ObjectId(k) = idFilter
        THEN [cls[k] EXCEPT !.currentStudents = @ + delta]
        ELSE cls[k]]

\* ----- task bookkeeping ----------------------------------------------------
Idle(p) == proc[p].op = "idle"

\* the server takes a new request on an idle task
Accept(p) ==
    /\ Idle(p)
    /\ requests < MaxRequests
    /\ requests' = requests + 1

Quiescent == \A p \in Procs : Idle(p)

Goto(p, rec, label) == proc' = [proc EXCEPT ![p] = [rec EXCEPT !.pc = label]]

Outcome(rec, kind, raised, published) ==
    [op |-> rec.op, kind |-> kind, raised |-> raised,
     published |-> published, sid |-> rec.sid, cid |-> rec.cid,
     uid |-> rec.uid, to |-> rec.to, name |-> rec.name,
     capacity |-> rec.capacity, summary |-> rec.summary, pre |-> rec.pre,
     pc |-> rec.pc, writes |-> rec.writes, report |-> rec.report,
     req |-> NoRequest, token |-> NoToken]

Finish(p, result) ==
    /\ proc' = [proc EXCEPT ![p] = IdleProc]
    /\ res' = [res EXCEPT ![p] = result]

\* a manager operation returns normally after publishing `event`
Return(p, rec, event) == Finish(p, Outcome(rec, "OK", "none", event))

\* student manager, updateSchool, getSchoolStats: every error is re-wrapped
FailRewrap(p, rec, code) ==
    Finish(p, Outcome(rec, CatchRewrap(AppError(code)), code, "none"))

\* classroom manager, createSchool, deleteSchool: AppError passes through
FailPass(p, rec, code) ==
    Finish(p, Outcome(rec, CatchPassThrough(AppError(code)), code, "none"))

\* the rejection of a store call: a driver error, not an AppError
StoreFailure == [isAppError |-> FALSE, code |-> "MongoError"]

\* an await inside try rejects with `err` under either catch style
ThrowPass(p, rec, err) ==
    Finish(p, Outcome(rec, CatchPassThrough(err), err.code, "none"))

ThrowRewrap(p, rec, err) ==
    Finish(p, Outcome(rec, CatchRewrap(err), err.code, "none"))

\* a task that goes on to its next await has no result yet
Continue(p, rec, label) ==
    /\ Goto(p, rec, label)
    /\ res' = [res EXCEPT ![p] = NoResult]

\* state of the store when a task is called (kept for the whole-operation
\* properties; the code does not read it)
PreCounts == [NoPre EXCEPT !.counts = Counts,
                           !.present = Present(students)]

PreStudent(u) == [NoPre EXCEPT !.counts = Counts,
                               !.classroomId = students[u].classroomId,
                               !.student = students[u]]

PreClassroom(c) == [NoPre EXCEPT !.counts = Counts,
                                 !.classroom = classrooms[c]]

\* ----- StudentManager -----------------------------------------------------

\* classroomsCollection.findOne({ _id: toObjectId(classroomId), schoolId })
FindClassroom(c, s) ==
    {k \in ById(classrooms, toObjectId(StrId(c))) :
        classrooms[k].schoolId = StrId(s)}

IsFull(k) == classrooms[k].currentStudents >= classrooms[k].capacity

\* studentsCollection.findOne({ email, status: 'active' })
ActiveWithEmail(e) ==
    {u \in Present(students) :
        students[u].email = e /\ students[u].status = "active"}

\* studentsCollection.findOne({ _id, schoolId, status: 'active' })
FindActiveStudent(u, s) ==
    {x \in ById(students, toObjectId(StrId(u))) :
        /\ students[x].schoolId = StrId(s)
        /\ students[x].status = "active"}

InFlight(op) == Cardinality({q \in Procs : proc[q].op = op})

\* --- enrollStudent({ schoolId, classroomId, email, ... }) ---
EnrollBegin(p, s, c, e) ==
        LET rec == [IdleProc EXCEPT !.op = "enrollStudent", !.sid = s,
                                    !.cid = c, !.email = e, !.pre = PreCounts]
        IN  /\ Accept(p)
            /\ Cardinality(Present(students)) + InFlight("enrollStudent")
                    < MaxStudents
            /\ IF ActiveWithEmail(e) # {}
               THEN FailRewrap(p, rec, "RESOURCE_EXISTS")
               ELSE Continue(p, rec, IF c # None THEN "findClassroom"
                                               ELSE "insert")
            /\ UNCHANGED <<schools, classrooms, students, cache>>

\* a lookup that takes the seat before it checks the capacity
EnrollFindClassroom_Reserves(p) ==
    LET rec == proc[p]
        found == FindClassroom(rec.cid, rec.sid)
    IN  /\ rec.op = "enrollStudent" /\ rec.pc = "findClassroom"
        /\ classrooms' = IncClassrooms(classrooms,
                                       toObjectId(StrId(rec.cid)), 1)
        /\ IF found = {}
           THEN FailRewrap(p, rec, "RESOURCE_NOT_FOUND")
           ELSE IF \E k \in found : IsFull(k)
           THEN FailRewrap(p, rec, "CLASSROOM_FULL")
           ELSE Continue(p, rec, "insert")
        /\ UNCHANGED <<schools, students, cache, requests>>

EnrollFindClassroom(p) ==
    LET rec == proc[p]
        found == FindClassroom(rec.cid, rec.sid)
    IN  /\ rec.op = "enrollStudent" /\ rec.pc = "findClassroom"
        /\ IF found = {}
           THEN FailRewrap(p, rec, "RESOURCE_NOT_FOUND")
           ELSE IF \E k \in found : IsFull(k)
           THEN FailRewrap(p, rec, "CLASSROOM_FULL")
           ELSE Continue(p, rec, "insert")
        /\ UNCHANGED <<schools, classrooms, students, cache, requests>>

EnrollInsert(p) ==
    LET rec == proc[p]
        u == NextId(students)
        doc == [status |-> "active", schoolId |-> StrId(rec.sid),
                classroomId |-> IF rec.cid # None THEN StrId(rec.cid)
                                                  ELSE NullId,
                email |-> rec.email, transferHistory |-> <<>>]
        rec2 == [rec EXCEPT !.uid = u]
    IN  /\ rec.op = "enrollStudent" /\ rec.pc = "insert"
        /\ HasRoom(students)
        /\ students' = [students EXCEPT ![u] = doc]
        /\ IF rec.cid # None
           THEN Continue(p, rec2, "inc")
           ELSE Return(p, rec2, "student:enrolled")
        /\ UNCHANGED <<schools, classrooms, cache, requests>>

\* an increment that the store applies only below capacity
EnrollInc_Guarded(p) ==
    LET rec == proc[p]
        full == \E k \in ById(classrooms, toObjectId(StrId(rec.cid))) :
                    IsFull(k)
    IN  /\ rec.op = "enrollStudent" /\ rec.pc = "inc"
        /\ classrooms' = IF full THEN classrooms
                         ELSE IncClassrooms(classrooms,
                                            toObjectId(StrId(rec.cid)), 1)
        /\ Return(p, rec, "student:enrolled")
        /\ UNCHANGED <<schools, students, cache, requests>>

EnrollInc(p) ==
    LET rec == proc[p]
    IN  /\ rec.op = "enrollStudent" /\ rec.pc = "inc"
        /\ classrooms' = IncClassrooms(classrooms, toObjectId(StrId(rec.cid)), 1)
        /\ Return(p, rec, "student:enrolled")
        /\ UNCHANGED <<schools, students, cache, requests>>

\* --- getStudent({ studentId, schoolId }) ---
GetStudent(p, u, s) ==
        LET rec == [IdleProc EXCEPT !.op = "getStudent", !.uid = u, !.sid = s]
        IN  /\ Accept(p)
            /\ IF FindActiveStudent(u, s) = {}
               THEN FailRewrap(p, rec, "RESOURCE_NOT_FOUND")
               ELSE Return(p, rec, "none")
            /\ UNCHANGED <<schools, classrooms, students, cache>>

\* --- updateStudent({ studentId, schoolId, updates }) ---
\* upd = "classroom": updates carries classroomId (and possibly names, grade)
\* upd = "fields":    updates carries only firstName / lastName / grade
\* upd = "none":      updates carries no allowed key (e.g. only status)

\* findOneAndUpdate(..., { returnDocument: 'after' })
FindOneAndUpdateResult(before, after) == after

UpdateStudentWrite(p, rec) ==
    LET u == rec.uid
        matched == {x \in ById(students, toObjectId(StrId(u))) :
                        students[x].schoolId = StrId(rec.sid)}
        after == IF rec.upd = "classroom"
                 THEN [students[u] EXCEPT !.classroomId = StrId(rec.cid)]
                 ELSE students[u]
        result == FindOneAndUpdateResult(students[u], after)
        changed == /\ rec.upd = "classroom"
                   /\ result.classroomId # StrId(rec.cid)
        rec2 == [rec EXCEPT !.result = result.classroomId,
                            !.pend = IF Truthy(result.classroomId)
                                     THEN {"dec", "inc"} ELSE {"inc"}]
    IN  IF matched = {}
        THEN /\ FailRewrap(p, rec, "RESOURCE_NOT_FOUND")
             /\ UNCHANGED students
        ELSE /\ students' = [students EXCEPT ![u] = after]
             /\ IF changed
                THEN Continue(p, rec2, "counters")
                ELSE Return(p, rec, "student:updated")

UpdateStudentBegin(p, u, s, c, upd) ==
        LET rec == [IdleProc EXCEPT !.op = "updateStudent", !.uid = u,
                        !.sid = s, !.upd = upd,
                        !.cid = IF upd = "classroom" THEN c ELSE None,
                        !.pre = PreStudent(u)]
            found == FindClassroom(c, s)
        IN  /\ Accept(p)
            /\ (upd = "classroom") = (c # None)
            /\ CASE upd = "none" ->
                    /\ FailRewrap(p, rec, "INVALID_INPUT")
                    /\ UNCHANGED students
                 [] upd = "fields" -> UpdateStudentWrite(p, rec)
                 [] upd = "classroom" ->
                    /\ IF found = {}
                       THEN FailRewrap(p, rec, "RESOURCE_NOT_FOUND")
                       ELSE IF \E k \in found : IsFull(k)
                       THEN FailRewrap(p, rec, "CLASSROOM_FULL")
                       ELSE Continue(p, rec, "write")
                    /\ UNCHANGED students
            /\ UNCHANGED <<schools, classrooms, cache>>

UpdateStudentUpdate(p) ==
    /\ proc[p].op = "updateStudent" /\ proc[p].pc = "write"
    /\ UpdateStudentWrite(p, proc[p])
    /\ UNCHANGED <<schools, classrooms, cache, requests>>

\* Promise.all([ old && $inc -1 on old, $inc +1 on new ]): either order
UpdateStudentCounters(p) ==
    LET rec == proc[p]
    IN  /\ rec.op = "updateStudent" /\ rec.pc = "counters"
        /\ \E x \in rec.pend :
            /\ classrooms' =
                 IF x = "dec"
                 THEN IncClassrooms(classrooms, toObjectId(rec.result), -1)
                 ELSE IncClassrooms(classrooms, toObjectId(StrId(rec.cid)), 1)
            /\ IF rec.pend = {x}
               THEN Return(p, rec, "student:updated")
               ELSE Continue(p, [rec EXCEPT !.pend = @ \ {x}], "counters")
        /\ UNCHANGED <<schools, students, cache, requests>>

\* --- transferStudent({ studentId, fromSchoolId, toSchoolId, reason }) ---
TransferBegin(p, u, from, to) ==
        LET rec == [IdleProc EXCEPT !.op = "transferStudent", !.uid = u,
                        !.sid = from, !.to = to, !.pre = PreStudent(u),
                        !.snap = students[u].classroomId]
        IN  /\ Accept(p)
            /\ Len(students[u].transferHistory) < MaxTransfers
            /\ IF FindActiveStudent(u, from) = {}
               THEN FailRewrap(p, [rec EXCEPT !.snap = NullId],
                               "INVALID_TRANSFER")
               ELSE Continue(p, rec, "findSchool")
            /\ UNCHANGED <<schools, classrooms, students, cache>>

\* the target school looked up by _id alone, whatever its status
TransferFindSchool_AnyStatus(p) ==
    LET rec == proc[p]
        target == ById(schools, toObjectId(StrId(rec.to)))
    IN  /\ rec.op = "transferStudent" /\ rec.pc = "findSchool"
        /\ IF target = {}
           THEN FailRewrap(p, rec, "SCHOOL_INACTIVE")
           ELSE Continue(p, rec, "write")
        /\ UNCHANGED <<schools, classrooms, students, cache, requests>>

\* schoolsCollection.findOne({ _id: toObjectId(toSchoolId), status: 'active' })
TransferFindSchool(p) ==
    LET rec == proc[p]
        target == {s \in ById(schools, toObjectId(StrId(rec.to))) :
                      schools[s].status = "active"}
    IN  /\ rec.op = "transferStudent" /\ rec.pc = "findSchool"
        /\ IF target = {}
           THEN FailRewrap(p, rec, "SCHOOL_INACTIVE")
           ELSE Continue(p, rec, "write")
        /\ UNCHANGED <<schools, classrooms, students, cache, requests>>

TransferWrite(p) ==
    LET rec == proc[p]
        u == rec.uid
        entry == [fromSchoolId |-> StrId(rec.sid), toSchoolId |-> StrId(rec.to)]
    IN  /\ rec.op = "transferStudent" /\ rec.pc = "write"
        /\ students' = [students EXCEPT
               ![u].schoolId = StrId(rec.to),
               ![u].classroomId = NullId,
               ![u].transferHistory = Append(@, entry)]
        /\ IF Truthy(rec.snap)
           THEN Continue(p, rec, "dec")
           ELSE Return(p, rec, "student:transferred")
        /\ UNCHANGED <<schools, classrooms, cache, requests>>

\* classroomsCollection.findOneAndUpdate({ _id: student.classroomId }, $inc -1)
TransferDec(p) ==
    LET rec == proc[p]
    IN  /\ rec.op = "transferStudent" /\ rec.pc = "dec"
        /\ classrooms' = IncClassrooms(classrooms, rec.snap, -1)
        /\ Return(p, rec, "student:transferred")
        /\ UNCHANGED <<schools, students, cache, requests>>

\* --- deactivateStudent({ studentId, schoolId, reason }) ---
DeactivateBegin(p, u, s) ==
        LET rec == [IdleProc EXCEPT !.op = "deactivateStudent", !.uid = u,
                        !.sid = s, !.pre = PreStudent(u),
                        !.snap = students[u].classroomId]
        IN  /\ Accept(p)
            /\ IF FindActiveStudent(u, s) = {}
               THEN FailRewrap(p, [rec EXCEPT !.snap = NullId],
                               "RESOURCE_NOT_FOUND")
               ELSE Continue(p, rec, "write")
            /\ UNCHANGED <<schools, classrooms, students, cache>>

DeactivateWrite(p) ==
    LET rec == proc[p]
    IN  /\ rec.op = "deactivateStudent" /\ rec.pc = "write"
        /\ students' = [students EXCEPT ![rec.uid].status = "inactive"]
        /\ IF Truthy(rec.snap)
           THEN Continue(p, rec, "dec")
           ELSE Return(p, rec, "student:deactivated")
        /\ UNCHANGED <<schools, classrooms, cache, requests>>

\* the decrement filtered on student.classroomId as stored, unconverted
DeactivateDec_RawId(p) ==
    LET rec == proc[p]
    IN  /\ rec.op = "deactivateStudent" /\ rec.pc = "dec"
        /\ classrooms' = IncClassrooms(classrooms, rec.snap, -1)
        /\ Return(p, rec, "student:deactivated")
        /\ UNCHANGED <<schools, students, cache, requests>>

DeactivateDec(p) ==
    LET rec == proc[p]
    IN  /\ rec.op = "deactivateStudent" /\ rec.pc = "dec"
        /\ classrooms' = IncClassrooms(classrooms, toObjectId(rec.snap), -1)
        /\ Return(p, rec, "student:deactivated")
        /\ UNCHANGED <<schools, students, cache, requests>>

\* --- a counter write that the store rejects ---
\* the findOneAndUpdate on the classroom rejects after the student write;
\* the catch throws DATABASE_ERROR and nothing else is done

\* a failure handler that takes the inserted student back
EnrollIncFails_Compensates(p) ==
    LET rec == proc[p]
    IN  /\ rec.op = "enrollStudent" /\ rec.pc = "inc"
        /\ students' = [students EXCEPT ![rec.uid] = NoStudent]
        /\ ThrowRewrap(p, rec, StoreFailure)
        /\ UNCHANGED <<schools, classrooms, cache, requests>>

EnrollIncFails(p) ==
    LET rec == proc[p]
    IN  /\ rec.op = "enrollStudent" /\ rec.pc = "inc"
        /\ ThrowRewrap(p, rec, StoreFailure)
        /\ UNCHANGED <<schools, classrooms, students, cache, requests>>

TransferDecFails(p) ==
    LET rec == proc[p]
    IN  /\ rec.op = "transferStudent" /\ rec.pc = "dec"
        /\ ThrowRewrap(p, rec, StoreFailure)
        /\ UNCHANGED <<schools, classrooms, students, cache, requests>>

\* the notification sent before the counter write that then rejects
DeactivateDecFails_Publishes(p) ==
    LET rec == proc[p]
    IN  /\ rec.op = "deactivateStudent" /\ rec.pc = "dec"
        /\ Finish(p, Outcome(rec, CatchRewrap(StoreFailure),
                             StoreFailure.code, "student:deactivated"))
        /\ UNCHANGED <<schools, classrooms, students, cache, requests>>

DeactivateDecFails(p) ==
    LET rec == proc[p]
    IN  /\ rec.op = "deactivateStudent" /\ rec.pc = "dec"
        /\ ThrowRewrap(p, rec, StoreFailure)
        /\ UNCHANGED <<schools, classrooms, students, cache, requests>>

\* ----- ClassroomManager ---------------------------------------------------

\* --- createClassroom({ schoolId, name, capacity, resources }) ---
CreateClassroomBegin(p, s, n, cap) ==
        LET rec == [IdleProc EXCEPT !.op = "createClassroom", !.sid = s,
                        !.name = n, !.capacity = cap]
            school == {x \in ById(schools, toObjectId(StrId(s))) :
                          schools[x].status = "active"}
        IN  /\ Accept(p)
            /\ Cardinality(Present(classrooms)) + InFlight("createClassroom")
                    < MaxClassrooms
            /\ IF school = {}
               THEN FailPass(p, rec, "SCHOOL_INACTIVE")
               ELSE Continue(p, rec, "findName")
            /\ UNCHANGED <<schools, classrooms, students, cache>>

\* classroomsCollection.findOne({ schoolId, name, status: { $ne: 'deleted' } })
ClassroomsNamed(s, n) ==
    {k \in Present(classrooms) :
        /\ classrooms[k].schoolId = StrId(s)
        /\ classrooms[k].name = n
        /\ classrooms[k].status # "deleted"}

CreateClassroomFindName(p) ==
    LET rec == proc[p]
    IN  /\ rec.op = "createClassroom" /\ rec.pc = "findName"
        /\ IF ClassroomsNamed(rec.sid, rec.name) # {}
           THEN FailPass(p, rec, "RESOURCE_EXISTS")
           ELSE Continue(p, rec, "insert")
        /\ UNCHANGED <<schools, classrooms, students, cache, requests>>

CreateClassroomInsert(p) ==
    LET rec == proc[p]
        k == NextId(classrooms)
        doc == [status |-> "active", schoolId |-> StrId(rec.sid),
                name |-> rec.name, capacity |-> rec.capacity,
                currentStudents |-> 0]
    IN  /\ rec.op = "createClassroom" /\ rec.pc = "insert"
        /\ HasRoom(classrooms)
        /\ classrooms' = [classrooms EXCEPT ![k] = doc]
        /\ Return(p, [rec EXCEPT !.cid = k], "classroom:created")
        /\ UNCHANGED <<schools, students, cache, requests>>

\* --- updateClassroom({ classroomId, schoolId, updates }) ---
\* name = "" / capacity = 0: the key is absent from updates

\* updateClassroom without the capacity validation
UpdateClassroomBegin_NoShrinkCheck(p, c, s, n, cap) ==
        LET rec == [IdleProc EXCEPT !.op = "updateClassroom", !.cid = c,
                        !.sid = s, !.name = n, !.capacity = cap,
                        !.pre = PreClassroom(c)]
            found == FindClassroom(c, s)
        IN  /\ Accept(p)
            /\ IF found = {}
               THEN FailPass(p, rec, "RESOURCE_NOT_FOUND")
               ELSE IF n # "" /\ n # classrooms[c].name
               THEN Continue(p, rec, "findName")
               ELSE IF n = "" /\ cap = 0
               THEN FailPass(p, rec, "INVALID_INPUT")
               ELSE Continue(p, rec, "write")
            /\ UNCHANGED <<schools, classrooms, students, cache>>

UpdateClassroomBegin(p, c, s, n, cap) ==
        LET rec == [IdleProc EXCEPT !.op = "updateClassroom", !.cid = c,
                        !.sid = s, !.name = n, !.capacity = cap,
                        !.pre = PreClassroom(c)]
            found == FindClassroom(c, s)
        IN  /\ Accept(p)
            /\ IF found = {}
               THEN FailPass(p, rec, "RESOURCE_NOT_FOUND")
               ELSE IF cap # 0 /\ classrooms[c].currentStudents > cap
               THEN FailPass(p, rec, "INVALID_OPERATION")
               ELSE IF n # "" /\ n # classrooms[c].name
               THEN Continue(p, rec, "findName")
               ELSE IF n = "" /\ cap = 0
               THEN FailPass(p, rec, "INVALID_INPUT")
               ELSE Continue(p, rec, "write")
            /\ UNCHANGED <<schools, classrooms, students, cache>>

UpdateClassroomFindName(p) ==
    LET rec == proc[p]
        others == ClassroomsNamed(rec.sid, rec.name)
                    \ ById(classrooms, toObjectId(StrId(rec.cid)))
    IN  /\ rec.op = "updateClassroom" /\ rec.pc = "findName"
        /\ IF others # {}
           THEN FailPass(p, rec, "RESOURCE_EXISTS")
           ELSE Continue(p, rec, "write")
        /\ UNCHANGED <<schools, classrooms, students, cache, requests>>

UpdateClassroomWrite(p) ==
    LET rec == proc[p]
        matched == FindClassroom(rec.cid, rec.sid)
    IN  /\ rec.op = "updateClassroom" /\ rec.pc = "write"
        /\ IF matched = {}
           THEN /\ FailPass(p, rec, "DATABASE_ERROR")
                /\ UNCHANGED classrooms
           ELSE /\ classrooms' = [classrooms EXCEPT
                      ![rec.cid].name = IF rec.name # "" THEN rec.name ELSE @,
                      ![rec.cid].capacity =
                          IF rec.capacity # 0 THEN rec.capacity ELSE @]
                /\ Return(p, rec, "classroom:updated")
        /\ UNCHANGED <<schools, students, cache, requests>>

\* --- deleteClassroom({ classroomId, schoolId }) ---
DeleteClassroomBegin(p, c, s) ==
        LET rec == [IdleProc EXCEPT !.op = "deleteClassroom", !.cid = c,
                        !.sid = s, !.pre = PreClassroom(c)]
            found == FindClassroom(c, s)
        IN  /\ Accept(p)
            /\ IF found = {}
               THEN FailPass(p, rec, "RESOURCE_NOT_FOUND")
               ELSE IF classrooms[c].currentStudents > 0
               THEN FailPass(p, rec, "INVALID_OPERATION")
               ELSE Continue(p, rec, "write")
            /\ UNCHANGED <<schools, classrooms, students, cache>>

\* classroomsCollection.findOneAndUpdate({ _id: classroomId, schoolId }, ...)
DeleteClassroomFilter(c) == StrId(c)

DeleteClassroomWrite(p) ==
    LET rec == proc[p]
        matched == {k \in ById(classrooms, DeleteClassroomFilter(rec.cid)) :
                       classrooms[k].schoolId = StrId(rec.sid)}
    IN  /\ rec.op = "deleteClassroom" /\ rec.pc = "write"
        /\ classrooms' = [k \in ClassroomIds |->
                            IF k \in matched
                            THEN [classrooms[k] EXCEPT !.status = "deleted"]
                            ELSE classrooms[k]]
        /\ Return(p, rec, "classroom:deleted")
        /\ UNCHANGED <<schools, students, cache, requests>>

\* ----- SchoolManager ------------------------------------------------------

\* validateSchoolExists(schoolId, { includeSoftDeleted: true })
ValidateSchoolExists_IncludeDeleted(s) ==
    ById(schools, toObjectId(StrId(s)))

\* validateSchoolExists(schoolId, { includeSoftDeleted: false })
ValidateSchoolExists(s) ==
    {x \in ById(schools, toObjectId(StrId(s))) : schools[x].status # "deleted"}

\* --- createSchool({ name, address, contactInfo, adminId }) ---
CreateSchoolBegin(p, n) ==
        LET rec == [IdleProc EXCEPT !.op = "createSchool", !.name = n]
            existing == {x \in Present(schools) :
                            NameRegexMatches(n, schools[x].name)}
        IN  /\ Accept(p)
            /\ Cardinality(Present(schools)) + InFlight("createSchool")
                    < MaxSchools
            /\ IF existing # {}
               THEN FailPass(p, rec, "RESOURCE_EXISTS")
               ELSE Continue(p, rec, "insert")
            /\ UNCHANGED <<schools, classrooms, students, cache>>

CreateSchoolInsert(p) ==
    LET rec == proc[p]
        s == NextId(schools)
    IN  /\ rec.op = "createSchool" /\ rec.pc = "insert"
        /\ HasRoom(schools)
        /\ schools' = [schools EXCEPT
                          ![s] = [status |-> "active", name |-> rec.name]]
        /\ Continue(p, [rec EXCEPT !.sid = s], "cache")
        /\ UNCHANGED <<classrooms, students, cache, requests>>

\* cacheSchool(school)
CreateSchoolCache(p) ==
    LET rec == proc[p]
    IN  /\ rec.op = "createSchool" /\ rec.pc = "cache"
        /\ cache' = cache \cup {rec.sid}
        /\ Return(p, rec, "school:created")
        /\ UNCHANGED <<schools, classrooms, students, requests>>

\* --- getSchoolStats({ schoolId }) ---
GetSchoolStats(p, s) ==
        LET rec == [IdleProc EXCEPT !.op = "getSchoolStats", !.sid = s]
        IN  /\ Accept(p)
            /\ IF ValidateSchoolExists(s) = {}
               THEN FailRewrap(p, rec, "RESOURCE_NOT_FOUND")
               ELSE Return(p, rec, "none")
            /\ UNCHANGED <<schools, classrooms, students, cache>>

\* --- updateSchool(schoolId, updates) ---
\* name = "" / status = "": the key is absent from updates (an update may
\* carry only address or contactInfo)
UpdateSchoolBegin(p, s, n, st) ==
        LET rec == [IdleProc EXCEPT !.op = "updateSchool", !.sid = s,
                        !.name = n, !.status = st]
        IN  /\ Accept(p)
            /\ IF ValidateSchoolExists(s) = {}
               THEN FailRewrap(p, rec, "RESOURCE_NOT_FOUND")
               ELSE Continue(p, rec, IF n # "" THEN "findName" ELSE "write")
            /\ UNCHANGED <<schools, classrooms, students, cache>>

UpdateSchoolFindName(p) ==
    LET rec == proc[p]
        existing == {x \in Present(schools) :
                        /\ NameRegexMatches(rec.name, schools[x].name)
                        /\ ObjectId(x) # toObjectId(StrId(rec.sid))}
    IN  /\ rec.op = "updateSchool" /\ rec.pc = "findName"
        /\ IF existing # {}
           THEN FailRewrap(p, rec, "RESOURCE_EXISTS")
           ELSE Continue(p, rec, "write")
        /\ UNCHANGED <<schools, classrooms, students, cache, requests>>

\* the keys of updates that reach $set
AllowedSchoolStatus(st) == st

UpdateSchoolWrite(p) ==
    LET rec == proc[p]
        st == AllowedSchoolStatus(rec.status)
    IN  /\ rec.op = "updateSchool" /\ rec.pc = "write"
        /\ schools' = [x \in SchoolIds |->
               IF x \in ById(schools, toObjectId(StrId(rec.sid)))
               THEN [status |-> IF st # "" THEN st ELSE schools[x].status,
                     name |-> IF rec.name # "" THEN rec.name
                                               ELSE schools[x].name]
               ELSE schools[x]]
        /\ Continue(p, rec, "cache")
        /\ UNCHANGED <<classrooms, students, cache, requests>>

\* clearSchoolCache(schoolId)
UpdateSchoolCache(p) ==
    LET rec == proc[p]
    IN  /\ rec.op = "updateSchool" /\ rec.pc = "cache"
        /\ cache' = cache \ {rec.sid}
        /\ Return(p, rec, "school:updated")
        /\ UNCHANGED <<schools, classrooms, students, requests>>

\* --- deleteSchool(schoolId) ---
\* the documents that belong to school s, whatever the representation of
\* their schoolId (kept for the whole-operation properties)
StudentsOf(s) ==
    {u \in Present(students) :
        Truthy(students[u].schoolId) /\ students[u].schoolId[2] = s}

ClassroomsOf(s) ==
    {k \in Present(classrooms) :
        Truthy(classrooms[k].schoolId) /\ classrooms[k].schoolId[2] = s}

PreSchool(s) ==
    [NoPre EXCEPT
        !.counts = Counts,
        !.school = schools[s].status,
        !.students = {u \in StudentsOf(s) : students[u].status # "deleted"},
        !.classrooms = {k \in ClassroomsOf(s) :
                            classrooms[k].status # "deleted"}]

\* the filter { schoolId: toObjectId(schoolId), status: { $ne: 'deleted' } }
CascadeFilter(s) == toObjectId(StrId(s))

CascadeMatch(coll, s) ==
    {k \in Present(coll) :
        coll[k].schoolId = CascadeFilter(s) /\ coll[k].status # "deleted"}

MarkDeleted(coll, ks) ==
    [k \in DOMAIN coll |->
        IF k \in ks THEN [coll[k] EXCEPT !.status = "deleted"] ELSE coll[k]]

DeleteSchoolBegin(p, s) ==
        LET rec == [IdleProc EXCEPT !.op = "deleteSchool", !.sid = s,
                        !.pre = PreSchool(s)]
        IN  /\ Accept(p)
            /\ IF ValidateSchoolExists(s) = {}
               THEN FailPass(p, rec, "RESOURCE_NOT_FOUND")
               ELSE Continue(p, rec, "countStudents")
            /\ UNCHANGED <<schools, classrooms, students, cache>>

DeleteSchoolCountStudents(p) ==
    LET rec == proc[p]
        n == Cardinality(CascadeMatch(students, rec.sid))
    IN  /\ rec.op = "deleteSchool" /\ rec.pc = "countStudents"
        /\ Continue(p, [rec EXCEPT !.summary.students.before = n],
                    "countClassrooms")
        /\ UNCHANGED <<schools, classrooms, students, cache, requests>>

DeleteSchoolCountClassrooms(p) ==
    LET rec == proc[p]
        n == Cardinality(CascadeMatch(classrooms, rec.sid))
    IN  /\ rec.op = "deleteSchool" /\ rec.pc = "countClassrooms"
        /\ Continue(p, [rec EXCEPT !.summary.classrooms.before = n],
                    "students")
        /\ UNCHANGED <<schools, classrooms, students, cache, requests>>

\* the school document marked deleted ahead of the cascade
DeleteSchoolStudents_SchoolFirst(p) ==
    LET rec == proc[p]
        ks == ById(schools, toObjectId(StrId(rec.sid)))
    IN  /\ rec.op = "deleteSchool" /\ rec.pc = "students"
        /\ schools' = MarkDeleted(schools, ks)
        /\ Continue(p, [rec EXCEPT !.writes = Append(@, "school")],
                    "classrooms")
        /\ UNCHANGED <<classrooms, students, cache, requests>>

DeleteSchoolStudents(p) ==
    LET rec == proc[p]
        ks == CascadeMatch(students, rec.sid)
    IN  /\ rec.op = "deleteSchool" /\ rec.pc = "students"
        /\ students' = MarkDeleted(students, ks)
        /\ Continue(p, [rec EXCEPT !.summary.students.deleted =
                                        Cardinality(ks),
                                    !.writes = Append(@, "students")],
                    "classrooms")
        /\ UNCHANGED <<schools, classrooms, cache, requests>>

DeleteSchoolClassrooms(p) ==
    LET rec == proc[p]
        ks == CascadeMatch(classrooms, rec.sid)
    IN  /\ rec.op = "deleteSchool" /\ rec.pc = "classrooms"
        /\ classrooms' = MarkDeleted(classrooms, ks)
        /\ Continue(p, [rec EXCEPT !.summary.classrooms.deleted =
                                        Cardinality(ks),
                                    !.writes = Append(@, "classrooms")],
                    "school")
        /\ UNCHANGED <<schools, students, cache, requests>>

DeleteSchoolSchool(p) ==
    LET rec == proc[p]
        ks == ById(schools, toObjectId(StrId(rec.sid)))
    IN  /\ rec.op = "deleteSchool" /\ rec.pc = "school"
        /\ schools' = MarkDeleted(schools, ks)
        /\ IF ks = {}
           THEN FailPass(p, rec, "DATABASE_ERROR")
           ELSE Continue(p, [rec EXCEPT !.writes = Append(@, "school")],
                         "cache")
        /\ UNCHANGED <<classrooms, students, cache, requests>>

DeleteSchoolCache(p) ==
    LET rec == proc[p]
    IN  /\ rec.op = "deleteSchool" /\ rec.pc = "cache"
        /\ cache' = cache \ {rec.sid}
        /\ Return(p, rec, "school:deleted")
        /\ UNCHANGED <<schools, classrooms, students, requests>>


\* --- store and cache failures in the school manager ---
\* cache get/set/del catch the client's error, log it and return null/false;
\* cacheSchool and clearSchoolCache go on, and the operation returns
\* the cache error reaching the operation's catch
CacheCallFails_Propagates(p, rec, event) ==
    ThrowPass(p, rec, [isAppError |-> FALSE, code |-> "CacheError"])

CacheCallFails(p, rec, event) == Return(p, rec, event)

CreateSchoolCacheFails(p) ==
    LET rec == proc[p]
    IN  /\ rec.op = "createSchool" /\ rec.pc = "cache"
        /\ CacheCallFails(p, rec, "school:created")
        /\ UNCHANGED <<schools, classrooms, students, cache, requests>>

UpdateSchoolCacheFails(p) ==
    LET rec == proc[p]
    IN  /\ rec.op = "updateSchool" /\ rec.pc = "cache"
        /\ CacheCallFails(p, rec, "school:updated")
        /\ UNCHANGED <<schools, classrooms, students, cache, requests>>

DeleteSchoolCacheFails(p) ==
    LET rec == proc[p]
    IN  /\ rec.op = "deleteSchool" /\ rec.pc = "cache"
        /\ CacheCallFails(p, rec, "school:deleted")
        /\ UNCHANGED <<schools, classrooms, students, cache, requests>>

\* one of deleteSchool's three updateMany/updateOne calls rejects
DeleteSchoolStepFails(p) ==
    LET rec == proc[p]
    IN  /\ rec.op = "deleteSchool"
        /\ rec.pc \in {"students", "classrooms", "school"}
        /\ ThrowPass(p, rec, StoreFailure)
        /\ UNCHANGED <<schools, classrooms, students, cache, requests>>

\* --- recoverPartialDelete(schoolId) ---
\* ObjectId.isValid(id): None stands for a value that is no 24-hex string
IsValidId(s) == s # None

RecoverCollections == {"schools", "students", "classrooms"}

\* collection === 'schools' ? { _id: toObjectId(schoolId) }
\*                          : { schoolId: toObjectId(schoolId) }
RecoverDocs(coll, s) ==
    IF coll = "schools"
    THEN [total |-> ById(schools, toObjectId(StrId(s))),
          deleted |-> {x \in ById(schools, toObjectId(StrId(s))) :
                          schools[x].status = "deleted"}]
    ELSE IF coll = "students"
    THEN [total |-> {u \in Present(students) :
                        students[u].schoolId = toObjectId(StrId(s))},
          deleted |-> {u \in Present(students) :
                        /\ students[u].schoolId = toObjectId(StrId(s))
                        /\ students[u].status = "deleted"}]
    ELSE [total |-> {k \in Present(classrooms) :
                        classrooms[k].schoolId = toObjectId(StrId(s))},
          deleted |-> {k \in Present(classrooms) :
                        /\ classrooms[k].schoolId = toObjectId(StrId(s))
                        /\ classrooms[k].status = "deleted"}]

\* catch (error) { throw new AppError('RECOVERY_CHECK_ERROR', ...) }
RecoverCatch(err) == AppError("RECOVERY_CHECK_ERROR").code

RecoverThrow(p, rec, err) ==
    Finish(p, Outcome(rec, RecoverCatch(err), err.code, "none"))

PartiallyDeleted(report) ==
    \E c \in RecoverCollections :
        /\ report[c].deletedCount > 0
        /\ report[c].deletedCount < report[c].totalCount

FullyDeleted(report) ==
    \A c \in RecoverCollections :
        report[c].deletedCount = report[c].totalCount

RecoveryNeeded(report) ==
    \E c \in RecoverCollections : report[c].deletedCount > 0

\* the three finds are issued together; toObjectId throws on an invalid id
RecoverBegin(p, s) ==
        LET rec == [IdleProc EXCEPT !.op = "recoverPartialDelete", !.sid = s,
                        !.pend = RecoverCollections]
        IN  /\ Accept(p)
            /\ IF ~IsValidId(s)
               THEN RecoverThrow(p, rec, [isAppError |-> FALSE,
                                          code |-> "Invalid ID format"])
               ELSE Continue(p, rec, "find")
            /\ UNCHANGED <<schools, classrooms, students, cache>>

\* a diagnostic that completes the cascade on the students it finds
RecoverRead_Repairs(p, coll) ==
    LET rec == proc[p]
        rec2 == [rec EXCEPT !.pend = @ \ {coll}]
    IN  /\ rec.op = "recoverPartialDelete" /\ rec.pc = "find"
        /\ coll \in rec.pend
        /\ students' = MarkDeleted(students, StudentsOf(rec.sid))
        /\ IF rec2.pend = {}
           THEN Return(p, rec2, "none")
           ELSE Continue(p, rec2, "find")
        /\ UNCHANGED <<schools, classrooms, cache, requests>>

\* one find(query).toArray() resolves; the report is returned after the last
RecoverRead(p, coll) ==
    LET rec == proc[p]
        docs == RecoverDocs(coll, rec.sid)
        rec2 == [rec EXCEPT
                    !.pend = @ \ {coll},
                    !.report[coll] =
                        [deletedCount |-> Cardinality(docs.deleted),
                         totalCount |-> Cardinality(docs.total)]]
    IN  /\ rec.op = "recoverPartialDelete" /\ rec.pc = "find"
        /\ coll \in rec.pend
        /\ IF rec2.pend = {}
           THEN Return(p, rec2, "none")
           ELSE Continue(p, rec2, "find")
        /\ UNCHANGED <<schools, classrooms, students, cache, requests>>

\* one find rejects
RecoverReadFails(p) ==
    LET rec == proc[p]
    IN  /\ rec.op = "recoverPartialDelete" /\ rec.pc = "find"
        /\ RecoverThrow(p, rec, StoreFailure)
        /\ UNCHANGED <<schools, classrooms, students, cache, requests>>

\* ----- specifications -----------------------------------------------------
SchoolStatusInputs == {"", "active", "inactive", "deleted"}

\* the awaits a task resumes from
StudentResume(p) ==
    \/ EnrollFindClassroom(p) \/ EnrollInsert(p) \/ EnrollInc(p)
    \/ UpdateStudentUpdate(p)
    \/ TransferFindSchool(p) \/ TransferWrite(p) \/ TransferDec(p)
    \/ DeactivateWrite(p) \/ DeactivateDec(p)

ClassroomResume(p) ==
    \/ UpdateClassroomWrite(p) \/ DeleteClassroomWrite(p)

SchoolResume(p) ==
    \/ UpdateSchoolWrite(p) \/ UpdateSchoolCache(p)
    \/ DeleteSchoolCountStudents(p) \/ DeleteSchoolCountClassrooms(p)
    \/ DeleteSchoolStudents(p) \/ DeleteSchoolClassrooms(p)
    \/ DeleteSchoolSchool(p) \/ DeleteSchoolCache(p)

\* the store after two createSchool and two createClassroom requests
InitSeeded ==
    /\ schools = [s \in SchoolIds |->
                    IF s = 1 THEN [status |-> "active", name |-> "a"]
                    ELSE IF s = 2 THEN [status |-> "active", name |-> "b"]
                    ELSE NoSchool]
    /\ classrooms = [k \in ClassroomIds |->
                    IF k <= 2
                    THEN [status |-> "active", schoolId |-> StrId(1),
                          name |-> IF k = 1 THEN "r1" ELSE "r2",
                          capacity |-> k, currentStudents |-> 0]
                    ELSE NoClassroom]
    /\ students = [u \in StudentIds |-> NoStudent]
    /\ cache = {1, 2}
    /\ proc = [p \in Procs |-> IdleProc]
    /\ res = [p \in Procs |-> NoResult]
    /\ requests = 0

\* the requests a client can send to task p
Request(p) ==
    \/ \E s \in SchoolIds, c \in ClassroomIds \cup {None}, e \in Emails :
            EnrollBegin(p, s, c, e)
    \/ \E u \in StudentIds, s \in SchoolIds : GetStudent(p, u, s)
    \/ \E u \in StudentIds, s \in SchoolIds, c \in ClassroomIds \cup {None},
          upd \in {"classroom", "fields", "none"} :
            UpdateStudentBegin(p, u, s, c, upd)
    \/ \E u \in StudentIds, from \in SchoolIds, to \in SchoolIds :
            TransferBegin(p, u, from, to)
    \/ \E u \in StudentIds, s \in SchoolIds : DeactivateBegin(p, u, s)
    \/ \E c \in ClassroomIds, s \in SchoolIds, cap \in Capacities \cup {0} :
            UpdateClassroomBegin(p, c, s, "", cap)
    \/ \E c \in ClassroomIds, s \in SchoolIds : DeleteClassroomBegin(p, c, s)
    \/ \E s \in SchoolIds : GetSchoolStats(p, s)
    \/ \E s \in SchoolIds, st \in SchoolStatusInputs :
            UpdateSchoolBegin(p, s, "", st)
    \/ \E s \in SchoolIds : DeleteSchoolBegin(p, s)

\* one request at a time
SeqNext ==
    \/ Request(1)
    \/ StudentResume(1)
    \/ ClassroomResume(1)
    \/ SchoolResume(1)

SeqSpec == InitSeeded /\ [][SeqNext]_vars

\* requests interleave at every await
Next ==
    \E p \in Procs :
        \/ Request(p)
        \/ StudentResume(p)
        \/ ClassroomResume(p)
        \/ SchoolResume(p)

Spec == InitSeeded /\ [][Next]_vars

\* the statuses an administrator sets on a school that stays in service
AdminStatusInputs == {"", "active", "inactive"}

\* school lifecycle requests interleaving: updateSchool (address, contact
\* or an in-service status) and deleteSchool
SchoolNext ==
    \E p \in Procs :
        \/ \E s \in SchoolIds, st \in AdminStatusInputs :
                UpdateSchoolBegin(p, s, "", st)
        \/ \E s \in SchoolIds : DeleteSchoolBegin(p, s)
        \/ SchoolResume(p)

SchoolSpec == InitSeeded /\ [][SchoolNext]_vars

\* ----- student and classroom specifications
\* the store after createSchool requests and an optional updateSchool that
\* set the second school inactive: the second school is absent, active or
\* inactive
InitLifecycle ==
    \E st \in {"none", "active", "inactive"} :
        /\ schools = [s \in SchoolIds |->
                        IF s = 1 THEN [status |-> "active", name |-> "a"]
                        ELSE IF s = 2 /\ st # "none"
                        THEN [status |-> st, name |-> "b"]
                        ELSE NoSchool]
        /\ classrooms = [k \in ClassroomIds |->
                        IF k <= 2
                        THEN [status |-> "active", schoolId |-> StrId(1),
                              name |-> IF k = 1 THEN "r1" ELSE "r2",
                              capacity |-> k, currentStudents |-> 0]
                        ELSE NoClassroom]
        /\ students = [u \in StudentIds |-> NoStudent]
        /\ cache = IF st = "active" THEN {1, 2} ELSE {1}
        /\ proc = [p \in Procs |-> IdleProc]
        /\ res = [p \in Procs |-> NoResult]
        /\ requests = 0

\* student lifecycle requests, one at a time
LifecycleNext ==
    \/ \E s \in SchoolIds, c \in ClassroomIds \cup {None}, e \in Emails :
            EnrollBegin(1, s, c, e)
    \/ \E u \in StudentIds, s \in SchoolIds, c \in ClassroomIds :
            UpdateStudentBegin(1, u, s, c, "classroom")
    \/ \E u \in StudentIds, from \in SchoolIds, to \in SchoolIds :
            TransferBegin(1, u, from, to)
    \/ \E u \in StudentIds, s \in SchoolIds : DeactivateBegin(1, u, s)
    \/ StudentResume(1)

LifecycleSpec == InitLifecycle /\ [][LifecycleNext]_vars

\* enrollments and classroom updates, one at a time
ClassroomSeqNext ==
    \/ \E s \in SchoolIds, c \in ClassroomIds, e \in Emails :
            EnrollBegin(1, s, c, e)
    \/ \E c \in ClassroomIds, s \in SchoolIds,
          n \in ClassroomNames \cup {""}, cap \in Capacities \cup {0} :
            UpdateClassroomBegin(1, c, s, n, cap)
    \/ EnrollFindClassroom(1) \/ EnrollInsert(1) \/ EnrollInc(1)
    \/ UpdateClassroomFindName(1) \/ UpdateClassroomWrite(1)

ClassroomSeqSpec == InitSeeded /\ [][ClassroomSeqNext]_vars

\* enrollments and transfers interleaving at every await
StudentRaceNext ==
    \E p \in Procs :
        \/ \E s \in SchoolIds, c \in ClassroomIds \cup {None}, e \in Emails :
                EnrollBegin(p, s, c, e)
        \/ \E u \in StudentIds, from \in SchoolIds, to \in SchoolIds :
                TransferBegin(p, u, from, to)
        \/ EnrollFindClassroom(p) \/ EnrollInsert(p) \/ EnrollInc(p)
        \/ TransferFindSchool(p) \/ TransferWrite(p) \/ TransferDec(p)

StudentRaceSpec == InitSeeded /\ [][StudentRaceNext]_vars

\* createSchool and updateSchool (rename) interleaving at every await,
\* from the empty store
SchoolNameNext ==
    \E p \in Procs :
        \/ \E n \in SchoolNames : CreateSchoolBegin(p, n)
        \/ \E s \in SchoolIds, n \in SchoolNames :
                UpdateSchoolBegin(p, s, n, "")
        \/ CreateSchoolInsert(p) \/ CreateSchoolCache(p)
        \/ UpdateSchoolFindName(p) \/ UpdateSchoolWrite(p)
        \/ UpdateSchoolCache(p)

SchoolNameSpec == Init /\ [][SchoolNameNext]_vars

\* the store after two createSchool requests
InitSchools ==
    /\ schools = [s \in SchoolIds |->
                    IF s = 1 THEN [status |-> "active", name |-> "a"]
                    ELSE IF s = 2 THEN [status |-> "active", name |-> "b"]
                    ELSE NoSchool]
    /\ classrooms = [k \in ClassroomIds |-> NoClassroom]
    /\ students = [u \in StudentIds |-> NoStudent]
    /\ cache = {1, 2}
    /\ proc = [p \in Procs |-> IdleProc]
    /\ res = [p \in Procs |-> NoResult]
    /\ requests = 0

\* createClassroom and updateClassroom (rename) interleaving at every await
ClassroomNameNext ==
    \E p \in Procs :
        \/ \E s \in SchoolIds, n \in ClassroomNames, cap \in Capacities :
                CreateClassroomBegin(p, s, n, cap)
        \/ \E c \in ClassroomIds, s \in SchoolIds, n \in ClassroomNames :
                UpdateClassroomBegin(p, c, s, n, 0)
        \/ CreateClassroomFindName(p) \/ CreateClassroomInsert(p)
        \/ UpdateClassroomFindName(p) \/ UpdateClassroomWrite(p)

ClassroomNameSpec == InitSchools /\ [][ClassroomNameNext]_vars

\* the store after createSchool, one createClassroom and one enrollStudent
\* into that classroom; the second school is absent, active or inactive
InitPopulated ==
    \E st \in {"none", "active", "inactive"} :
        /\ schools = [s \in SchoolIds |->
                        IF s = 1 THEN [status |-> "active", name |-> "a"]
                        ELSE IF s = 2 /\ st # "none"
                        THEN [status |-> st, name |-> "b"]
                        ELSE NoSchool]
        /\ classrooms = [k \in ClassroomIds |->
                        IF k = 1
                        THEN [status |-> "active", schoolId |-> StrId(1),
                              name |-> "r1", capacity |-> MaxCapacity,
                              currentStudents |-> 1]
                        ELSE NoClassroom]
        /\ students = [u \in StudentIds |->
                        IF u = 1
                        THEN [status |-> "active", schoolId |-> StrId(1),
                              classroomId |-> StrId(1), email |-> 1,
                              transferHistory |-> <<>>]
                        ELSE NoStudent]
        /\ cache = IF st = "active" THEN {1, 2} ELSE {1}
        /\ proc = [p \in Procs |-> IdleProc]
        /\ res = [p \in Procs |-> NoResult]
        /\ requests = 0

\* school manager requests, one at a time, with a store and a cache that
\* may fail
SchoolFaultNext ==
    \/ \E n \in SchoolNames : CreateSchoolBegin(1, n)
    \/ \E s \in SchoolIds, st \in AdminStatusInputs :
            UpdateSchoolBegin(1, s, "", st)
    \/ \E s \in SchoolIds : DeleteSchoolBegin(1, s)
    \/ \E s \in SchoolIds \cup {None} : RecoverBegin(1, s)
    \/ CreateSchoolInsert(1) \/ CreateSchoolCache(1)
    \/ SchoolResume(1)
    \/ CreateSchoolCacheFails(1) \/ UpdateSchoolCacheFails(1)
    \/ DeleteSchoolCacheFails(1) \/ DeleteSchoolStepFails(1)
    \/ \E coll \in RecoverCollections : RecoverRead(1, coll)
    \/ RecoverReadFails(1)

SchoolFaultSpec == InitPopulated /\ [][SchoolFaultNext]_vars

\* ----- HTTP layer: routers, role and school-access middleware ------------
\* req.user as decoded from the token: { role, schoolId }
Roles == {"superadmin", "school_admin"}

\* a superadmin is assigned to no school, a school admin to one or (not
\* yet) to none
Principals ==
    {[role |-> "superadmin", schoolId |-> None]}
        \cup [role : {"school_admin"}, schoolId : SchoolIds \cup {None}]

\* checkRole(roles)
checkRole(roles, user) == IF user.role \in roles THEN "next" ELSE "403"

\* a school-access check that lets every school admin through
checkSchoolAccess_AnyAdmin(user, s) ==
    IF s = None THEN "403"
    ELSE IF user.role \in {"superadmin", "school_admin"} THEN "next"
    ELSE "403"

\* checkSchoolAccess, with req.params.schoolId = s
checkSchoolAccess(user, s) ==
    IF s = None THEN "403"
    ELSE IF user.role = "superadmin" THEN "next"
    ELSE IF user.role = "school_admin" /\ user.schoolId = s THEN "next"
    ELSE "403"

Mw(kind, roles) == [kind |-> kind, roles |-> roles]

roleOnly == <<Mw("checkRole", {"superadmin"})>>

superAdminMiddleware == <<Mw("checkRole", {"superadmin"})>>

schoolAdminMiddleware ==
    <<Mw("checkRole", {"school_admin", "superadmin"}),
      Mw("checkSchoolAccess", {})>>

sharedMiddleware == <<Mw("checkSchoolAccess", {})>>

Route(router, method, path, mws, op) ==
    [router |-> router, method |-> method, path |-> path, mws |-> mws,
     op |-> op]

\* the school-scoped routes of the four routers, each in registration order
AuthRoutes ==
    <<Route("auth", "GET", "/schools/:schoolId/admins", roleOnly,
            "getSchoolAdmins"),
      Route("auth", "POST", "/schools/:schoolId/admins", roleOnly,
            "assignAdminToSchool")>>

SuperAdminRoutes ==
    <<Route("superadmin", "GET", "/schools/:schoolId",
            superAdminMiddleware, "getSchoolStats"),
      Route("superadmin", "PATCH", "/schools/:schoolId",
            superAdminMiddleware, "updateSchool"),
      Route("superadmin", "DELETE", "/schools/:schoolId",
            superAdminMiddleware, "deleteSchool")>>

SchoolAdminRoutes ==
    <<Route("schoolAdmin", "POST", "/schools/:schoolId/classrooms",
            schoolAdminMiddleware, "createClassroom"),
      Route("schoolAdmin", "GET", "/schools/:schoolId/classrooms/:classroomId",
            schoolAdminMiddleware, "getClassroom"),
      Route("schoolAdmin", "PATCH",
            "/schools/:schoolId/classrooms/:classroomId",
            schoolAdminMiddleware, "updateClassroom"),
      Route("schoolAdmin", "PATCH",
            "/schools/:schoolId/classrooms/:classroomId/resources",
            schoolAdminMiddleware, "updateResources"),
      Route("schoolAdmin", "DELETE",
            "/schools/:schoolId/classrooms/:classroomId",
            schoolAdminMiddleware, "deleteClassroom"),
      Route("schoolAdmin", "PATCH", "/schools/:schoolId/classrooms/bulk",
            schoolAdminMiddleware, "bulkUpdateClassrooms"),
      Route("schoolAdmin", "GET",
            "/schools/:schoolId/classrooms/:classroomId/stats",
            schoolAdminMiddleware, "getClassroomStats"),
      Route("schoolAdmin", "POST", "/schools/:schoolId/students",
            schoolAdminMiddleware, "enrollStudent"),
      Route("schoolAdmin", "GET", "/schools/:schoolId/students",
            schoolAdminMiddleware, "getStudents"),
      Route("schoolAdmin", "GET", "/schools/:schoolId/students/:studentId",
            schoolAdminMiddleware, "getStudent"),
      Route("schoolAdmin", "PATCH", "/schools/:schoolId/students/:studentId",
            schoolAdminMiddleware, "updateStudent"),
      Route("schoolAdmin", "POST",
            "/schools/:schoolId/students/:studentId/transfer",
            schoolAdminMiddleware, "transferStudent"),
      Route("schoolAdmin", "POST",
            "/schools/:schoolId/students/:studentId/deactivate",
            schoolAdminMiddleware, "deactivateStudent"),
      Route("schoolAdmin", "GET", "/schools/:schoolId/stats",
            schoolAdminMiddleware, "getSchoolStats")>>

SharedRoutes ==
    <<Route("shared", "GET", "/schools/:schoolId", sharedMiddleware,
            "getSchool"),
      Route("shared", "GET", "/schools/:schoolId/classrooms",
            sharedMiddleware, "getClassrooms")>>

\* setupRoutes: auth, superadmin, school-admin, shared, all under /api
Routes == AuthRoutes \o SuperAdminRoutes \o SchoolAdminRoutes \o SharedRoutes

\* the method and path of every registered route, and two that no route
\* serves
HttpEndpoints ==
    {<<Routes[i].method, Routes[i].path>> : i \in DOMAIN Routes}
        \cup {<<"DELETE", "/schools/:schoolId/students">>,
              <<"POST", "/schools/:schoolId">>}

\* a path matches a pattern when it is the pattern, or when a literal
\* segment of the path stands where the pattern has a parameter
PathMatches(pattern, path) ==
    \/ pattern = path
    \/ /\ pattern = "/schools/:schoolId/classrooms/:classroomId"
       /\ path = "/schools/:schoolId/classrooms/bulk"

HttpRequests ==
    {[method |-> e[1], path |-> e[2], schoolId |-> s, user |-> u] :
        e \in HttpEndpoints, s \in SchoolIds, u \in Principals}

\* the first registered route that matches the request, 0 when none does
FirstRoute(req) ==
    LET matching == {i \in DOMAIN Routes :
                        /\ Routes[i].method = req.method
                        /\ PathMatches(Routes[i].path, req.path)}
    IN  IF matching = {} THEN 0
        ELSE CHOOSE i \in matching : \A j \in matching : i <= j

\* the route's middleware in order; the first that answers ends the request
RECURSIVE RunMiddleware(_, _)
RunMiddleware(mws, req) ==
    IF mws = <<>> THEN "next"
    ELSE LET mw == Head(mws)
             answer == IF mw.kind = "checkRole"
                       THEN checkRole(mw.roles, req.user)
                       ELSE checkSchoolAccess(req.user, req.schoolId)
         IN  IF answer = "next" THEN RunMiddleware(Tail(mws), req)
             ELSE answer

\* what the application does with an authenticated request: the status it
\* answers without a handler, or the manager operation its handler calls
Dispatch(req) ==
    LET i == FirstRoute(req)
    IN  IF i = 0 THEN [status |-> "404", op |-> "none"]
        ELSE IF RunMiddleware(Routes[i].mws, req) # "next"
        THEN [status |-> RunMiddleware(Routes[i].mws, req), op |-> "none"]
        ELSE [status |-> "handler", op |-> Routes[i].op]

\* the request was answered by a middleware: no manager operation is called
Answered(p, req, status) ==
    /\ Accept(p)
    /\ Finish(p, [NoResult EXCEPT !.op = "http", !.kind = status,
                                  !.sid = req.schoolId, !.req = req])
    /\ UNCHANGED <<schools, classrooms, students, cache>>

\* manager operations that read or write only what this model leaves out
OtherOps ==
    {"getSchoolAdmins", "assignAdminToSchool", "getClassroom",
     "updateResources", "bulkUpdateClassrooms", "getClassroomStats",
     "getStudents", "getSchool", "getClassrooms"}

OtherCall(p, op, s) ==
        LET rec == [IdleProc EXCEPT !.op = op, !.sid = s]
        IN  /\ Accept(p)
            /\ Return(p, rec, "none")
            /\ UNCHANGED <<schools, classrooms, students, cache>>

\* the route handler: the manager call with schoolId from the path and the
\* rest from the validated params and body; the clients of this
\* specification send one body per route and name the first student
Handler(p, op, s) ==
    \/ op = "getSchoolStats" /\ GetSchoolStats(p, s)
    \/ op = "updateSchool" /\ UpdateSchoolBegin(p, s, "", "inactive")
    \/ op = "deleteSchool" /\ DeleteSchoolBegin(p, s)
    \/ op = "createClassroom" /\ CreateClassroomBegin(p, s, "r3", 1)
    \/ op = "updateClassroom" /\ \E c \in ClassroomIds :
                                    UpdateClassroomBegin(p, c, s, "", MaxCapacity)
    \/ op = "deleteClassroom" /\ \E c \in ClassroomIds :
                                    DeleteClassroomBegin(p, c, s)
    \/ op = "enrollStudent" /\ \E c \in {None, 1} : EnrollBegin(p, s, c, 2)
    \/ op = "getStudent" /\ GetStudent(p, 1, s)
    \/ op = "updateStudent" /\ \E c \in ClassroomIds :
                                    UpdateStudentBegin(p, 1, s, c, "classroom")
    \/ op = "transferStudent" /\ \E to \in SchoolIds : TransferBegin(p, 1, s, to)
    \/ op = "deactivateStudent" /\ DeactivateBegin(p, 1, s)
    \/ op \in OtherOps /\ OtherCall(p, op, s)

\* verifyToken accepted the token: req.user is set and the request waits
\* for the routers
Pending(p) == Idle(p) /\ res[p].op = "http" /\ res[p].kind = "pending"

HttpReceive(p, req) ==
    /\ Idle(p) /\ ~Pending(p)
    /\ requests < MaxHttpRequests
    /\ res' = [res EXCEPT ![p] = [NoResult EXCEPT !.op = "http",
                                                  !.kind = "pending",
                                                  !.req = req]]
    /\ UNCHANGED <<schools, classrooms, students, cache, proc, requests>>

\* the routers take the request
HttpRoute(p) ==
    /\ Pending(p)
    /\ LET req == res[p].req
           d == Dispatch(req)
       IN  IF d.status = "handler"
           THEN Handler(p, d.op, req.schoolId)
           ELSE Answered(p, req, d.status)

\* authenticated requests to the school-scoped routes, one at a time
HttpNext ==
    \/ \E req \in HttpRequests : HttpReceive(1, req)
    \/ HttpRoute(1)
    \/ StudentResume(1)
    \/ ClassroomResume(1)
    \/ SchoolResume(1)
    \/ CreateClassroomFindName(1) \/ CreateClassroomInsert(1)

HttpSpec == InitPopulated /\ [][HttpNext]_vars

\* two clients whose enrollStudent requests into the classrooms of the
\* first school interleave at every await
RaceProcs == {1, 2}

EnrollRaceNext ==
    \E p \in RaceProcs :
        \/ \E c \in ClassroomIds, e \in Emails : EnrollBegin(p, 1, c, e)
        \/ EnrollFindClassroom(p) \/ EnrollInsert(p) \/ EnrollInc(p)

EnrollRaceSpec == InitSeeded /\ [][EnrollRaceNext]_vars

\* student requests, one at a time, with counter writes that may fail
CounterFaultNext ==
    \/ \E s \in SchoolIds, c \in ClassroomIds, e \in Emails :
            EnrollBegin(1, s, c, e)
    \/ \E u \in StudentIds, from \in SchoolIds, to \in SchoolIds :
            TransferBegin(1, u, from, to)
    \/ \E u \in StudentIds, s \in SchoolIds : DeactivateBegin(1, u, s)
    \/ EnrollFindClassroom(1) \/ EnrollInsert(1) \/ EnrollInc(1)
    \/ TransferFindSchool(1) \/ TransferWrite(1) \/ TransferDec(1)
    \/ DeactivateWrite(1) \/ DeactivateDec(1)
    \/ EnrollIncFails(1) \/ TransferDecFails(1) \/ DeactivateDecFails(1)

CounterFaultSpec == InitSeeded /\ [][CounterFaultNext]_vars

\* enrollStudent requests, with or without a classroom, one at a time
EnrollSeqNext ==
    \/ \E s \in SchoolIds, c \in ClassroomIds \cup {None}, e \in Emails :
            EnrollBegin(1, s, c, e)
    \/ EnrollFindClassroom(1) \/ EnrollInsert(1) \/ EnrollInc(1)

EnrollSeqSpec == InitSeeded /\ [][EnrollSeqNext]_vars

\* every notifying operation of the three managers, one request at a time,
\* against a store and a cache that may fail
NotifyNext ==
    \/ \E c \in {None, 1} : EnrollBegin(1, 1, c, 2)
    \/ \E upd \in {"classroom", "fields", "none"} :
            UpdateStudentBegin(1, 1, 1, IF upd = "classroom" THEN 1 ELSE None,
                               upd)
    \/ \E to \in SchoolIds : TransferBegin(1, 1, 1, to)
    \/ DeactivateBegin(1, 1, 1)
    \/ CreateClassroomBegin(1, 1, "r3", 1)
    \/ \E cap \in {0, MaxCapacity} : UpdateClassroomBegin(1, 1, 1, "", cap)
    \/ DeleteClassroomBegin(1, 1, 1)
    \/ CreateSchoolBegin(1, "b")
    \/ \E s \in SchoolIds : UpdateSchoolBegin(1, s, "", "inactive")
    \/ \E s \in SchoolIds : DeleteSchoolBegin(1, s)
    \/ StudentResume(1)
    \/ ClassroomResume(1)
    \/ CreateClassroomFindName(1) \/ CreateClassroomInsert(1)
    \/ CreateSchoolInsert(1) \/ CreateSchoolCache(1)
    \/ SchoolResume(1)
    \/ EnrollIncFails(1) \/ TransferDecFails(1) \/ DeactivateDecFails(1)
    \/ CreateSchoolCacheFails(1) \/ UpdateSchoolCacheFails(1)
    \/ DeleteSchoolCacheFails(1) \/ DeleteSchoolStepFails(1)

NotifySpec == InitPopulated /\ [][NotifyNext]_vars

\* two clients whose deactivateStudent and transferStudent requests on the
\* enrolled student interleave at every await
ReleaseRaceNext ==
    \E p \in RaceProcs :
        \/ DeactivateBegin(p, 1, 1)
        \/ \E to \in SchoolIds : TransferBegin(p, 1, 1, to)
        \/ DeactivateWrite(p) \/ DeactivateDec(p)
        \/ TransferFindSchool(p) \/ TransferWrite(p) \/ TransferDec(p)

ReleaseRaceSpec == InitPopulated /\ [][ReleaseRaceNext]_vars

\* two clients whose updateClassroom (capacity) and enrollStudent requests
\* on the occupied classroom interleave at every await
CapacityRaceNext ==
    \E p \in RaceProcs :
        \/ \E e \in Emails : EnrollBegin(p, 1, 1, e)
        \/ \E cap \in Capacities : UpdateClassroomBegin(p, 1, 1, "", cap)
        \/ EnrollFindClassroom(p) \/ EnrollInsert(p) \/ EnrollInc(p)
        \/ UpdateClassroomWrite(p)

CapacityRaceSpec == InitPopulated /\ [][CapacityRaceNext]_vars

\* two clients: deleteSchool interleaving at every await with enrollStudent,
\* createClassroom and transferStudent
CascadeRaceNext ==
    \E p \in RaceProcs :
        \/ \E s \in SchoolIds : DeleteSchoolBegin(p, s)
        \/ \E s \in SchoolIds, c \in {None, 1} : EnrollBegin(p, s, c, 2)
        \/ \E s \in SchoolIds : CreateClassroomBegin(p, s, "r3", 1)
        \/ \E to \in SchoolIds : TransferBegin(p, 1, 1, to)
        \/ DeleteSchoolCountStudents(p) \/ DeleteSchoolCountClassrooms(p)
        \/ DeleteSchoolStudents(p) \/ DeleteSchoolClassrooms(p)
        \/ DeleteSchoolSchool(p) \/ DeleteSchoolCache(p)
        \/ EnrollFindClassroom(p) \/ EnrollInsert(p) \/ EnrollInc(p)
        \/ CreateClassroomFindName(p) \/ CreateClassroomInsert(p)
        \/ TransferFindSchool(p) \/ TransferWrite(p) \/ TransferDec(p)

CascadeRaceSpec == InitPopulated /\ [][CascadeRaceNext]_vars

\* two clients of any school whose student and classroom updates on the
\* enrolled student and its classroom interleave at every await
TenantRaceNext ==
    \E p \in RaceProcs :
        \/ \E s \in SchoolIds, upd \in {"classroom", "fields"} :
                UpdateStudentBegin(p, 1, s,
                                   IF upd = "classroom" THEN 1 ELSE None, upd)
        \/ \E s \in SchoolIds : DeactivateBegin(p, 1, s)
        \/ \E from \in SchoolIds, to \in SchoolIds :
                TransferBegin(p, 1, from, to)
        \/ \E s \in SchoolIds : UpdateClassroomBegin(p, 1, s, "", MaxCapacity)
        \/ \E s \in SchoolIds : DeleteClassroomBegin(p, 1, s)
        \/ UpdateStudentUpdate(p)
        \/ DeactivateWrite(p) \/ DeactivateDec(p)
        \/ TransferFindSchool(p) \/ TransferWrite(p) \/ TransferDec(p)
        \/ UpdateClassroomWrite(p) \/ DeleteClassroomWrite(p)

TenantRaceSpec == InitPopulated /\ [][TenantRaceNext]_vars

\* an operator's deleteSchool requests against a store that may fail, each
\* followed by recoverPartialDelete requests of a second client for the
\* school of the last deleteSchool
RecoverAfterDeleteNext ==
    \/ \E s \in SchoolIds : res[2] = NoResult /\ DeleteSchoolBegin(1, s)
    \/ DeleteSchoolCountStudents(1) \/ DeleteSchoolCountClassrooms(1)
    \/ DeleteSchoolStudents(1) \/ DeleteSchoolClassrooms(1)
    \/ DeleteSchoolSchool(1) \/ DeleteSchoolCache(1)
    \/ DeleteSchoolStepFails(1)
    \/ /\ Idle(1) /\ res[1].op = "deleteSchool"
       /\ RecoverBegin(2, res[1].sid)
    \/ \E coll \in RecoverCollections : RecoverRead(2, coll)

RecoverAfterDeleteSpec == InitPopulated /\ [][RecoverAfterDeleteNext]_vars

\* ----- UserManager sessions and the verifyToken middleware ---------------
\* the cache key `token:${accessToken}`, kept apart from the school keys
TokenKey(tok) == MaxSchools + tok.iat

\* generateToken(secret, user): jwt.sign of { id, role, schoolId } at the
\* time of the call
generateToken(user) == Token(user, requests + 1, TRUE)

\* verifyJwtToken(token, secret): jwt.verify within the token's lifetime
verifyJwtToken(tok) == tok.signed

\* login({ email, password }) with the credentials of the active user; the
\* reads and the lastLogin write touch only the users collection
Login(q, user) ==
    LET tok == generateToken(user)
    IN  /\ Accept(q)
        /\ cache' = cache \cup {TokenKey(tok)}
        /\ Finish(q, [NoResult EXCEPT !.op = "login", !.kind = "OK",
                                      !.published = "user:loggedin",
                                      !.token = tok])
        /\ UNCHANGED <<schools, classrooms, students>>

\* logout(userId, token) with the token the client got from its login
Logout(q) ==
    LET tok == res[q].token
    IN  /\ res[q].op = "login"
        /\ Accept(q)
        /\ cache' = cache \ {TokenKey(tok)}
        /\ Finish(q, [NoResult EXCEPT !.op = "logout", !.kind = "OK",
                                      !.published = "user:loggedout",
                                      !.token = tok])
        /\ UNCHANGED <<schools, classrooms, students>>

\* the tokens the clients hold, and tokens the server never signed
HeldTokens ==
    {res[q].token : q \in {x \in Procs : res[x].op \in {"login", "logout"}}}

ForgedTokens == {Token(user, 0, FALSE) : user \in Principals}

\* app.use('/api', verifyToken): next() with req.user = decoded, or 401
verifyToken(p, tok, req) ==
    /\ Idle(p) /\ ~Pending(p)
    /\ res[p].op \notin {"login", "logout"}
    /\ requests < MaxRequests
    /\ IF verifyJwtToken(tok)
       THEN /\ res' = [res EXCEPT ![p] =
                        [NoResult EXCEPT !.op = "http", !.kind = "pending",
                                         !.req = [req EXCEPT !.user = tok.user],
                                         !.token = tok]]
            /\ UNCHANGED <<proc, requests>>
       ELSE /\ Accept(p)
            /\ Finish(p, [NoResult EXCEPT !.op = "http", !.kind = "401",
                                          !.token = tok])
    /\ UNCHANGED <<schools, classrooms, students, cache>>

\* a client that logs in and out, and requests to GET /api/schools/:schoolId
\* that carry a token a client holds or a forged one
SessionNext ==
    \/ \E user \in Principals : Login(2, user)
    \/ Logout(2)
    \/ \E tok \in HeldTokens \cup ForgedTokens, s \in SchoolIds :
            verifyToken(1, tok, [NoRequest EXCEPT !.method = "GET",
                                                  !.path = "/schools/:schoolId",
                                                  !.schoolId = s])
    \/ HttpRoute(1)

SessionSpec == InitPopulated /\ [][SessionNext]_vars

\* ----- properties ----------------------------------------------------------

\* the students that refer to classroom k
RefersTo(u, k) ==
    Truthy(students[u].classroomId) /\ students[u].classroomId[2] = k

\* the result of the request that task p completed last
Done(p, op) == Idle(p) /\ res[p].op = op

Succeeded(p, op) == Done(p, op) /\ res[p].kind = "OK"

\* C1: in every quiescent state, every classroom has
\* 0 <= currentStudents <= capacity
C1_CapacityInvariant ==
    Quiescent =>
        \A k \in Present(classrooms) :
            /\ 0 <= classrooms[k].currentStudents
            /\ classrooms[k].currentStudents <= classrooms[k].capacity

\* C2: in every quiescent state, a classroom's currentStudents is the number
\* of non-deleted students whose classroomId is that classroom
C2_CounterMatchesStudents ==
    Quiescent =>
        \A k \in Present(classrooms) :
            classrooms[k].currentStudents =
                Cardinality({u \in Present(students) :
                                /\ students[u].status # "deleted"
                                /\ RefersTo(u, k)})

C4_EnrollChecksCapacity ==
    \A p \in Procs :
        LET r == res[p]
            k == r.cid
        IN  (/\ Done(p, "enrollStudent")
             /\ k # None
             /\ FindClassroom(k, r.sid) # {}
             /\ r.raised # "RESOURCE_EXISTS")
            => IF r.pre.counts[k] < classrooms[k].capacity
               THEN /\ r.kind = "OK"
                    /\ r.uid # None
                    /\ students[r.uid].status = "active"
                    /\ students[r.uid].classroomId = StrId(k)
                    /\ classrooms[k].currentStudents = r.pre.counts[k] + 1
               ELSE /\ r.kind = "CLASSROOM_FULL"
                    /\ r.uid = None
                    /\ classrooms[k].currentStudents = r.pre.counts[k]

\* C5: a domain-rule violation reaches the caller with the kind it was
\* raised with
C5_DomainKindPreserved ==
    \A p \in Procs :
        res[p].raised \in DomainKinds => res[p].kind = res[p].raised

\* C6: after a deleteSchool that returned success, run alone, every student
\* and classroom of the school that was not deleted before is deleted, the
\* school is deleted, and the summary counts them
C6_CascadeDeletesAll ==
    \A p \in Procs :
        LET r == res[p]
        IN  Succeeded(p, "deleteSchool")
            => /\ \A u \in r.pre.students : students[u].status = "deleted"
               /\ \A k \in r.pre.classrooms : classrooms[k].status = "deleted"
               /\ schools[r.sid].status = "deleted"
               /\ r.summary.students.before = Cardinality(r.pre.students)
               /\ r.summary.students.deleted = Cardinality(r.pre.students)
               /\ r.summary.classrooms.before = Cardinality(r.pre.classrooms)
               /\ r.summary.classrooms.deleted = Cardinality(r.pre.classrooms)

\* C7: a school whose status is deleted keeps status deleted
C7_SchoolDeletedIsTerminal ==
    [][\A s \in SchoolIds :
          schools[s].status = "deleted" => schools'[s].status = "deleted"]_vars

\* C8: a school's status becomes deleted only in the school step of the
\* deleteSchool cascade
C8_DeletedOnlyByCascade ==
    [][\A s \in SchoolIds :
          (schools[s].status # "deleted" /\ schools'[s].status = "deleted")
          => \E p \in Procs : /\ proc[p].op = "deleteSchool"
                              /\ proc[p].pc = "school"
                              /\ proc[p].sid = s]_vars

\* no request ever marks a student or a classroom deleted: the cascade
\* filters on an ObjectId schoolId and deleteClassroom on a string _id
NoStudentDeleted == \A u \in StudentIds : students[u].status # "deleted"

NoClassroomDeleted == \A k \in ClassroomIds : classrooms[k].status # "deleted"

\* updateStudent never reaches its counter updates
CountersBranchDead == \A p \in Procs : proc[p].pc # "counters"

C14_SecondDeactivateNotFound ==
    \A p \in Procs :
        LET r == res[p]
        IN  (Done(p, "deactivateStudent") /\ r.pre.student.status = "inactive")
            => r.kind = "RESOURCE_NOT_FOUND"

\* C16: a successful transferStudent of a student that had a classroomId
\* sets classroomId to null and decrements that classroom's currentStudents
\* by exactly 1
C16_TransferReleasesSeat ==
    \A p \in Procs :
        LET r == res[p]
            k == r.pre.classroomId[2]
        IN  (Succeeded(p, "transferStudent") /\ Truthy(r.pre.classroomId))
            => /\ students[r.uid].classroomId = NullId
               /\ classrooms[k].currentStudents = r.pre.counts[k] - 1

\* C12: run alone, updateClassroom on an existing classroom with a capacity
\* smaller than its currentStudents fails and leaves the classroom document
\* unchanged, whatever else the call carries
C12_ShrinkRejectedUnchanged ==
    \A p \in Procs :
        LET r == res[p]
        IN  (/\ Done(p, "updateClassroom")
             /\ r.raised # "RESOURCE_NOT_FOUND"
             /\ r.capacity # 0
             /\ r.capacity < r.pre.classroom.currentStudents)
            => /\ r.kind # "OK"
               /\ classrooms[r.cid] = r.pre.classroom

\* a capacity below the occupancy was rejected in a call that also carried a
\* new, unused name
C12_Witness ==
    \E p \in Procs :
        LET r == res[p]
        IN  /\ Done(p, "updateClassroom")
            /\ r.raised = "INVALID_OPERATION"
            /\ r.capacity < r.pre.classroom.currentStudents
            /\ r.name # ""
            /\ ClassroomsNamed(r.sid, r.name) = {}

\* C13: run alone, transferStudent to a school that does not exist or is not
\* active is rejected and leaves the student and every counter unchanged
C13_TransferRejectedUnchanged ==
    \A p \in Procs :
        LET r == res[p]
        IN  (Done(p, "transferStudent") /\ schools[r.to].status # "active")
            => /\ r.kind # "OK"
               /\ students[r.uid] = r.pre.student
               /\ Counts = r.pre.counts

\* an active student of the source school, seated in a classroom, was
\* refused a transfer to an inactive school
C13_Witness ==
    \E p \in Procs :
        LET r == res[p]
        IN  /\ Done(p, "transferStudent")
            /\ r.raised = "SCHOOL_INACTIVE"
            /\ schools[r.to].status = "inactive"
            /\ r.pre.student.status = "active"
            /\ Truthy(r.pre.student.classroomId)

\* the same refusal for a target school that does not exist
C13_AbsentTargetReached ==
    \E p \in Procs :
        /\ Done(p, "transferStudent")
        /\ res[p].raised = "SCHOOL_INACTIVE"
        /\ schools[res[p].to].status = "none"

\* C15: run alone, a successful deactivateStudent on an active student sets
\* the status to inactive and changes the counters by exactly -1 on the
\* student's classroom, if any, and not at all otherwise
C15_DeactivateReleasesSeat ==
    \A p \in Procs :
        LET r == res[p]
        IN  (Succeeded(p, "deactivateStudent")
             /\ r.pre.student.status = "active")
            => /\ students[r.uid].status = "inactive"
               /\ \A k \in ClassroomIds :
                     classrooms[k].currentStudents =
                         r.pre.counts[k]
                         - (IF r.pre.classroomId = StrId(k) THEN 1 ELSE 0)

\* a seated student was deactivated
C15_Witness ==
    \E p \in Procs :
        /\ Succeeded(p, "deactivateStudent")
        /\ Truthy(res[p].pre.classroomId)
        /\ students[res[p].uid].status = "inactive"

\* C17: transferHistory only grows by appending, one record per transfer,
\* and the appended record's fromSchoolId is the student's schoolId
\* immediately before the write, also when transfers interleave
C17_HistoryAppendOnly ==
    [][\A u \in StudentIds :
          LET h == students[u].transferHistory
              h2 == students'[u].transferHistory
          IN  \/ h2 = h
              \/ /\ Len(h2) = Len(h) + 1
                 /\ SubSeq(h2, 1, Len(h)) = h
                 /\ h2[Len(h2)].fromSchoolId = students[u].schoolId]_vars

\* C18: at most one active student has any given email, whatever the
\* interleaving of enrollStudent calls
C18_ActiveEmailUnique ==
    \A e \in Emails : Cardinality(ActiveWithEmail(e)) <= 1

\* C19: no two non-deleted schools have names that are equal ignoring
\* letter case, whatever the interleaving of createSchool and updateSchool
C19_SchoolNameUnique ==
    \A x, y \in Present(schools) :
        (/\ x # y
         /\ schools[x].status # "deleted"
         /\ schools[y].status # "deleted")
        => ToLower(schools[x].name) # ToLower(schools[y].name)

\* C20: no two non-deleted classrooms of the same school have the same name,
\* whatever the interleaving of createClassroom and updateClassroom, and
\* every classroom is created with currentStudents = 0
C20_ClassroomNameUnique ==
    [][/\ \A x, y \in ClassroomIds :
            (/\ x # y
             /\ classrooms'[x].status \notin {"none", "deleted"}
             /\ classrooms'[y].status \notin {"none", "deleted"}
             /\ classrooms'[x].schoolId = classrooms'[y].schoolId)
            => classrooms'[x].name # classrooms'[y].name
       /\ \A k \in ClassroomIds :
            (classrooms[k].status = "none" /\ classrooms'[k].status # "none")
            => classrooms'[k].currentStudents = 0]_vars

\* every classroom is created with currentStudents = 0
ClassroomCreatedEmpty ==
    [][\A k \in ClassroomIds :
          (classrooms[k].status = "none" /\ classrooms'[k].status # "none")
          => classrooms'[k].currentStudents = 0]_vars

\* ----- failures and the school lifecycle
\* C21: every failure of a manager operation is an error of the taxonomy:
\* the kind of every finished operation is "OK" or one of the twelve entries
C21_FailuresInTaxonomy ==
    \A p \in Procs : res[p].kind \in ErrorCodes \cup {"OK", "none"}

\* C22: a cache failure never fails createSchool, updateSchool or
\* deleteSchool: a call that got as far as its cache step, all persistence
\* writes done, returns success whether the cache call worked or not
C22_CacheFailureHarmless ==
    \A p \in Procs :
        \A op \in {"createSchool", "updateSchool", "deleteSchool"} :
            Done(p, op) /\ res[p].pc = "cache" => res[p].kind = "OK"

\* a createSchool returned success although its cache.set failed: the new
\* school is stored and not cached
C22_Witness ==
    /\ Succeeded(1, "createSchool")
    /\ schools[res[1].sid].status = "active"
    /\ res[1].sid \notin cache

\* an updateSchool returned success although its cache.del failed
C22_UpdateReached ==
    /\ Succeeded(1, "updateSchool")
    /\ res[1].sid \in cache

\* a deleteSchool returned success although its cache.del failed
C22_DeleteReached ==
    /\ Succeeded(1, "deleteSchool")
    /\ res[1].sid \in cache

\* the writes a deleteSchool call has issued so far
DeleteSchoolOrder == <<"students", "classrooms", "school">>

DeleteSchoolWrites(p) ==
    IF proc[p].op = "deleteSchool" THEN proc[p].writes
    ELSE IF Done(p, "deleteSchool") THEN res[p].writes
    ELSE <<>>

C23_SchoolStepFailed ==
    /\ Done(1, "deleteSchool")
    /\ res[1].pc = "school"
    /\ res[1].kind = "DATABASE_ERROR"

\* a step of a recoverPartialDelete call: the task is in the call before
\* or after the step
RecoverStep(p) ==
    \/ proc[p].op = "recoverPartialDelete"
    \/ proc'[p].op = "recoverPartialDelete"
    \/ /\ res'[p].op = "recoverPartialDelete"
       /\ res'[p] # res[p]

\* C24: recoverPartialDelete is read-only: none of its steps changes a
\* school, classroom or student document or the cache
C24_RecoverReadOnly ==
    [][\A p \in Procs :
          RecoverStep(p) => UNCHANGED <<schools, classrooms, students, cache>>
      ]_vars

\* a recoverPartialDelete of a deleted school returned its report, with
\* the school counted as deleted
C24_Witness ==
    /\ Succeeded(1, "recoverPartialDelete")
    /\ res[1].report["schools"] = [deletedCount |-> 1, totalCount |-> 1]
    /\ RecoveryNeeded(res[1].report)
    /\ schools[res[1].sid].status = "deleted"

\* C25: deleteSchool of a school that is deleted or absent fails and writes
\* nothing: no write is issued, and the school and its students and
\* classrooms are as they were when the call was made
C25_DeleteDeletedRejected ==
    \A p \in Procs :
        LET r == res[p]
        IN  Done(p, "deleteSchool") /\ r.pre.school \in {"deleted", "none"} =>
                /\ r.kind \in ErrorCodes
                /\ r.writes = <<>>
                /\ schools[r.sid].status = r.pre.school
                /\ {u \in StudentsOf(r.sid) : students[u].status # "deleted"}
                        = r.pre.students
                /\ {k \in ClassroomsOf(r.sid) :
                        classrooms[k].status # "deleted"} = r.pre.classrooms

\* a second deleteSchool of the first school, whose students and classroom
\* are still stored, was rejected
C25_Witness ==
    /\ Done(1, "deleteSchool")
    /\ res[1].pre.school = "deleted"
    /\ res[1].sid = 1
    /\ res[1].pre.students # {}
    /\ res[1].kind = "RESOURCE_NOT_FOUND"

\* a deleteSchool of an absent school was rejected
C25_AbsentReached ==
    /\ Done(1, "deleteSchool")
    /\ res[1].pre.school = "none"
    /\ res[1].kind = "RESOURCE_NOT_FOUND"


\* ----- access control
\* the request ended in a middleware: the task took no manager operation
\* and the store is as it was
NoManagerCall(p) ==
    /\ proc'[p] = IdleProc
    /\ res'[p].op = "http"
    /\ UNCHANGED <<schools, classrooms, students, cache>>

HasSchoolAccessCheck(req) ==
    /\ FirstRoute(req) # 0
    /\ \E k \in DOMAIN Routes[FirstRoute(req)].mws :
            Routes[FirstRoute(req)].mws[k].kind = "checkSchoolAccess"

\* C26: on every school-scoped route a request of a school admin whose
\* schoolId is not the path's schoolId is answered 403 without a manager
\* call, and a superadmin passes the school-access check for every school
C26_ForeignSchoolForbidden ==
    [][\A p \in Procs :
          Pending(p) =>
            LET req == res[p].req
            IN  /\ /\ req.user.role = "school_admin"
                   /\ req.user.schoolId # req.schoolId
                   /\ FirstRoute(req) # 0
                   => NoManagerCall(p) /\ res'[p].kind = "403"
                /\ req.user.role = "superadmin" /\ HasSchoolAccessCheck(req)
                   => ~NoManagerCall(p)
      ]_vars

\* the admin of the second school was answered 403 on a student route of
\* the first school, which the school-admin router serves
C26_Witness ==
    /\ Done(1, "http")
    /\ res[1].kind = "403"
    /\ res[1].req.user = [role |-> "school_admin", schoolId |-> 2]
    /\ res[1].req.schoolId = 1
    /\ res[1].req.path = "/schools/:schoolId/students"
    /\ res[1].req.method = "POST"

\* C27: GET and PATCH /api/schools/X from the school admin assigned to X
\* reach the school manager: no such request is answered 403
C27_AssignedAdminReachesSchool ==
    \A p \in Procs :
        LET r == res[p]
        IN  ~ /\ r.op = "http"
              /\ r.kind = "403"
              /\ r.req.user.role = "school_admin"
              /\ r.req.user.schoolId = r.req.schoolId
              /\ r.req.path = "/schools/:schoolId"
              /\ r.req.method \in {"GET", "PATCH"}

\* ----- races and partial failures of the student manager
\* two enrollStudent calls into classroom k returned success, both made
\* when k had one open seat
LastSeatRace(p, q, k) ==
    /\ p # q
    /\ Succeeded(p, "enrollStudent") /\ Succeeded(q, "enrollStudent")
    /\ res[p].cid = k /\ res[q].cid = k
    /\ res[p].pre.counts[k] = classrooms[k].capacity - 1
    /\ res[q].pre.counts[k] = classrooms[k].capacity - 1

\* C28: two concurrent enrollStudent calls for the last open seat of a
\* classroom can both pass the capacity check, both insert and both
\* increment: whenever two calls made at currentStudents = capacity - 1 both
\* succeed, two students are stored and the classroom is over capacity
C28_LastSeatOverfill ==
    \A p \in Procs, q \in Procs, k \in ClassroomIds :
        LastSeatRace(p, q, k) =>
            /\ res[p].uid # res[q].uid
            /\ students[res[p].uid].status = "active"
            /\ students[res[q].uid].status = "active"
            /\ classrooms[k].currentStudents >= classrooms[k].capacity + 1

\* the interleaving of the claim: different emails, both students in the
\* classroom, currentStudents = capacity + 1
C28_Witness ==
    \E k \in ClassroomIds :
        /\ LastSeatRace(1, 2, k)
        /\ students[res[1].uid].email # students[res[2].uid].email
        /\ students[res[1].uid].classroomId = StrId(k)
        /\ students[res[2].uid].classroomId = StrId(k)
        /\ classrooms[k].currentStudents = classrooms[k].capacity + 1

\* the call failed at its classroom-counter write
CounterWriteFailed(p, op) ==
    /\ Done(p, op)
    /\ res[p].pc \in {"inc", "dec"}
    /\ res[p].kind # "OK"

\* C29: when the counter write of enrollStudent, transferStudent or
\* deactivateStudent fails after the student write, the student write is
\* kept, no counter is adjusted, and the caller gets DATABASE_ERROR
C29_CounterFailureKeepsStudent ==
    \A p \in Procs :
        LET r == res[p]
            st == students[r.uid]
        IN  /\ CounterWriteFailed(p, "enrollStudent") =>
                /\ r.kind = "DATABASE_ERROR"
                /\ Counts = r.pre.counts
                /\ r.uid \notin r.pre.present
                /\ st.status = "active"
                /\ st.classroomId = StrId(r.cid)
            /\ CounterWriteFailed(p, "transferStudent") =>
                /\ r.kind = "DATABASE_ERROR"
                /\ Counts = r.pre.counts
                /\ st.schoolId = StrId(r.to)
                /\ st.classroomId = NullId
                /\ Len(st.transferHistory) =
                        Len(r.pre.student.transferHistory) + 1
            /\ CounterWriteFailed(p, "deactivateStudent") =>
                /\ r.kind = "DATABASE_ERROR"
                /\ Counts = r.pre.counts
                /\ r.pre.student.status = "active"
                /\ st.status = "inactive"

\* an enrollStudent failed at its increment: the student is stored in the
\* classroom and the classroom still counts no student
C29_Witness ==
    /\ CounterWriteFailed(1, "enrollStudent")
    /\ students[res[1].uid].classroomId = StrId(res[1].cid)
    /\ classrooms[res[1].cid].currentStudents = 0

\* a transferStudent and a deactivateStudent failed at their decrement
C29_TransferReached == CounterWriteFailed(1, "transferStudent")

C29_DeactivateReached == CounterWriteFailed(1, "deactivateStudent")

EnrollRejections == {"RESOURCE_EXISTS", "RESOURCE_NOT_FOUND", "CLASSROOM_FULL"}

\* C30: a rejected enrollStudent (email in use by an active student,
\* classroom not found under the school, classroom full) inserts no student
\* and changes no currentStudents; an enrollStudent without classroomId
\* changes no currentStudents
C30_RejectedEnrollChangesNothing ==
    \A p \in Procs :
        LET r == res[p]
        IN  Done(p, "enrollStudent") =>
                /\ r.raised \in EnrollRejections =>
                    /\ r.uid = None
                    /\ Present(students) = r.pre.present
                    /\ Counts = r.pre.counts
                /\ r.cid = None => Counts = r.pre.counts

\* an enrollStudent into a full classroom that holds a student was rejected
C30_Witness ==
    /\ Done(1, "enrollStudent")
    /\ res[1].raised = "CLASSROOM_FULL"
    /\ classrooms[res[1].cid].currentStudents >= 1
    /\ res[1].pre.present # {}

\* the other rejections, and an enrollment without classroom next to an
\* occupied classroom
C30_EmailInUseReached ==
    Done(1, "enrollStudent") /\ res[1].raised = "RESOURCE_EXISTS"

C30_ClassroomNotFoundReached ==
    Done(1, "enrollStudent") /\ res[1].raised = "RESOURCE_NOT_FOUND"

C30_NoClassroomReached ==
    /\ Succeeded(1, "enrollStudent")
    /\ res[1].cid = None
    /\ \E k \in ClassroomIds : classrooms[k].currentStudents >= 1

\* ----- notifications
\* the event each operation publishes
EventOf(op) ==
    CASE op = "enrollStudent" -> "student:enrolled"
      [] op = "updateStudent" -> "student:updated"
      [] op = "transferStudent" -> "student:transferred"
      [] op = "deactivateStudent" -> "student:deactivated"
      [] op = "createClassroom" -> "classroom:created"
      [] op = "updateClassroom" -> "classroom:updated"
      [] op = "deleteClassroom" -> "classroom:deleted"
      [] op = "createSchool" -> "school:created"
      [] op = "updateSchool" -> "school:updated"
      [] op = "deleteSchool" -> "school:deleted"
      [] OTHER -> "none"

\* the await at which the operation of result r issues its last write: the
\* counter write when a classroom is involved, the cache call of the school
\* operations
LastWrite(r) ==
    CASE r.op = "enrollStudent" ->
            IF r.cid # None THEN {"inc"} ELSE {"insert"}
      [] r.op = "updateStudent" -> {"idle", "write"}
      [] r.op \in {"transferStudent", "deactivateStudent"} ->
            IF Truthy(r.pre.classroomId) THEN {"dec"} ELSE {"write"}
      [] r.op = "createClassroom" -> {"insert"}
      [] r.op \in {"updateClassroom", "deleteClassroom"} -> {"write"}
      [] r.op \in {"createSchool", "updateSchool", "deleteSchool"} ->
            {"cache"}
      [] OTHER -> {}

\* C31: a notification is published only by an operation that returns
\* success, only after the operation's last write, and once: a successful
\* operation has published exactly its own event, a failed one nothing
C31_PublishOnlyOnSuccess ==
    \A p \in Procs :
        LET r == res[p]
        IN  /\ r.published # "none" =>
                /\ r.kind = "OK"
                /\ r.published = EventOf(r.op)
                /\ r.pc \in LastWrite(r)
            /\ (r.kind = "OK" /\ EventOf(r.op) # "none") =>
                r.published = EventOf(r.op)
            /\ proc[p].op # "idle" => r.published = "none"

\* a deactivateStudent failed at its counter write, after the student was
\* set inactive, and published nothing
C31_Witness ==
    /\ CounterWriteFailed(1, "deactivateStudent")
    /\ students[res[1].uid].status = "inactive"
    /\ res[1].published = "none"

\* a successful operation of each manager published its event
C31_StudentEventReached ==
    Succeeded(1, "transferStudent") /\ res[1].published = "student:transferred"

C31_ClassroomEventReached ==
    Succeeded(1, "deleteClassroom") /\ res[1].published = "classroom:deleted"

C31_SchoolEventReached ==
    Succeeded(1, "deleteSchool") /\ res[1].published = "school:deleted"

\* ----- seat release
\* the increments applied for the student enrolled before the requests
\* start, and the decrements applied since: that student is the only one
\* stored, so every change of a counter is made on its behalf
SeatIncrements == 1

SeatDecrements ==
    LET k == 1
    IN  SeatIncrements - classrooms[k].currentStudents

\* C32: for any interleaving of deactivateStudent and transferStudent calls
\* on the same student, the decrements applied to classroom counters on its
\* behalf never exceed the increments applied on its behalf
C32_SeatReleasedOnce == SeatDecrements <= SeatIncrements

\* ----- capacity updates racing with enrollments
\* task p completes a successful updateClassroom that writes a capacity
CapacityWritten(p) ==
    /\ proc[p].op = "updateClassroom" /\ proc[p].pc = "write"
    /\ proc[p].capacity # 0
    /\ proc'[p].op = "idle" /\ res'[p].kind = "OK"

\* C33: for any interleaving of updateClassroom with enrollStudent on the
\* same classroom, the capacity written by a successful updateClassroom is
\* not smaller than the classroom's currentStudents at the moment of the
\* write
C33_CapacityCoversStudents ==
    [][\A p \in Procs :
          CapacityWritten(p) =>
              classrooms'[proc[p].cid].capacity
                  >= classrooms[proc[p].cid].currentStudents]_vars

\* ----- deleted schools
\* C35: in every quiescent state, a school with status deleted has no
\* student and no classroom with a non-deleted status, for any sequence or
\* interleaving of deleteSchool with enrollStudent, createClassroom and
\* transferStudent into that school
C35_DeletedSchoolIsEmpty ==
    Quiescent =>
        \A s \in Present(schools) :
            schools[s].status = "deleted" =>
                /\ \A u \in StudentsOf(s) : students[u].status = "deleted"
                /\ \A k \in ClassroomsOf(s) : classrooms[k].status = "deleted"

\* ----- tenant isolation of writes
\* the operations of the claim, and the school id a step of task p was
\* invoked with (schoolId, or fromSchoolId for transferStudent)
TenantOps ==
    {"updateStudent", "deactivateStudent", "transferStudent",
     "updateClassroom", "deleteClassroom"}

StepOf(p) ==
    IF proc[p].op # "idle" THEN proc[p]
    ELSE IF proc'[p].op # "idle" THEN proc'[p]
    ELSE res'[p]

Stepped(p) == proc'[p] # proc[p] \/ res'[p] # res[p]

\* C36: an operation invoked with school id X never modifies a student or
\* a classroom counter that belongs to another school at the moment of the
\* write, including when a transferStudent of the same student interleaves
C36_WritesStayInSchool ==
    [][\A p \in Procs :
          (Stepped(p) /\ StepOf(p).op \in TenantOps) =>
              /\ \A u \in StudentIds :
                    students'[u] # students[u] =>
                        students[u].schoolId = StrId(StepOf(p).sid)
              /\ \A k \in ClassroomIds :
                    classrooms'[k].currentStudents
                            # classrooms[k].currentStudents =>
                        classrooms[k].schoolId = StrId(StepOf(p).sid)]_vars

\* ----- classroom changes on students that are not active
\* C37: updateStudent never assigns a classroomId to a student whose status
\* is not active: a classroom change on such a student is rejected and
\* changes neither the student nor any counter
C37_InactiveStudentNotSeated ==
    \A p \in Procs :
        LET r == res[p]
        IN  (/\ Done(p, "updateStudent")
             /\ r.cid # None
             /\ r.pre.student.status \in {"inactive", "deleted"})
            => /\ r.kind # "OK"
               /\ students[r.uid] = r.pre.student
               /\ Counts = r.pre.counts

\* ----- recovery report after a partial deleteSchool
\* the deleteSchool of task p on a school that held students stopped after
\* its student step and before the school document was marked deleted
StoppedAfterStudents(p) ==
    /\ Done(p, "deleteSchool")
    /\ res[p].kind # "OK"
    /\ res[p].pc \in {"classrooms", "school"}
    /\ res[p].pre.students # {}
    /\ schools[res[p].sid].status # "deleted"

C39_LoggedOutTokenRejected ==
    [][\A p \in Procs, q \in Procs :
          (/\ Succeeded(q, "logout")
           /\ ~Pending(p) /\ Pending(p)')
          => res'[p].token # res[q].token]_vars

====
